---- MODULE Spec2Model ----
(***************************************************************************)
(* frege-rs: the truth tree of src/validity/truth_tree/mod.rs.             *)
(*                                                                         *)
(* A TruthTree wraps an id_tree::Tree<Branch>: an arena (a vector of       *)
(* nodes) in which every node holds its data (a Branch), the id of its     *)
(* parent (None for the root) and the ordered vector of its children's     *)
(* ids.  A NodeId is the pair (id of the tree that issued it, index in the *)
(* arena).  Nodes are never removed here, so the arena only grows and a    *)
(* new node always takes the next index.                                   *)
(*                                                                         *)
(* A Branch (branch.rs) is an ordered list of statements and a closed      *)
(* flag.                                                                   *)
(***************************************************************************)
EXTENDS Integers, Sequences, FiniteSets, TLC

\* ---------------------------------------------------------------- bounds
\* The largest number of branches a tree is grown to.
MaxBranches == 4
\* The largest number of append_statement calls made on a tree.
MaxAppended == 1

\* Option<T> is a sequence of length 0 (None) or 1 (Some(v)).
None == <<>>
Some(v) == <<v>>

\* Statement::Simple(SimpleStatementLetter(letter, Subscript(subscript))),
\* the statements the tests build branches from.
Simple(letter, subscript) == [letter |-> letter, subscript |-> subscript]

\* The statement the caller seeds its n-th branch with: every branch is
\* built from a statement of its own, as in the tests (BRANCH_NODE_1 for the
\* root, BRANCH_NODE_2 and BRANCH_NODE_3 for the branches appended).
Seed(n) == Simple("A", Some(n))

\* The statement the caller gives to its n-th append_statement call: again
\* one of its own, so that a statement that ends up in the wrong branch or
\* at the wrong place shows.
Derived(n) == Simple("B", Some(n))

\* ------------------------------------------------------------ identifiers
\* The id of the tree under study and the id of some other tree.
ThisTree == "T"
OtherTree == "U"

\* TreeId(NodeId): the tree that issued the id and the index in its arena.
TreeId(tree_id, index) == [tree_id |-> tree_id, index |-> index]

\* An id issued by another tree: never valid for this tree.
ForeignId == TreeId(OtherTree, 1)

\* ---------------------------------------------------------------- Branch
\* Branch::new(nodes): the given statements, not closed.
BranchNew(nodes) == [statements |-> nodes, closed |-> FALSE]

\* Branch::is_closed
BranchIsClosed(branch) == branch.closed

\* A plausible slip: close flips the flag, so that a second close reopens.
BranchCloseToggles(branch) == [branch EXCEPT !.closed = ~@]

\* Branch::close: sets the flag (closing twice leaves it set).
BranchClose(branch) == [branch EXCEPT !.closed = TRUE]

\* Branch::append_statement is forbidden on a closed branch: it panics.
BranchAppendStatementPanics(branch) == branch.closed

\* Branch::append_statement: the statement becomes the last of the branch.
BranchAppendStatement(branch, node) ==
    [branch EXCEPT !.statements = Append(@, node)]

\* ------------------------------------------------------------- id_tree
\* Node::new(data): no parent, no children.
NodeNew(data) == [data |-> data, parent |-> None, children |-> <<>>]

\* Tree::get / get_mut succeed iff the id was issued by this tree (its
\* tree_id matches) and names a node of the arena.
IsValidNodeId(t, id) ==
    /\ id.tree_id = t.id
    /\ id.index \in 1..Len(t.nodes)

\* The node an id of this tree names.
NodeOf(t, id) == t.nodes[id.index]

\* The ids of this tree's nodes.
NodeIds(t) == {TreeId(t.id, i) : i \in 1..Len(t.nodes)}

\* TreeBuilder::new().with_root(Node::new(main_branch)).build()
TruthTreeNew(main_branch) ==
    [id    |-> ThisTree,
     root  |-> Some(TreeId(ThisTree, 1)),
     nodes |-> <<NodeNew(main_branch)>>]

\* ------------------------------------------------------------ TruthTree
\* The result of a call that can panic: the tree after the call, the value
\* returned (None when the call returns nothing or panicked), and whether
\* the call panicked.
Returned(t, ret) == [tree |-> t, ret |-> ret, panic |-> FALSE]
Panicked(t) == [tree |-> t, ret |-> None, panic |-> TRUE]

\* TruthTree::main_trunk_id: tree.root_node_id().unwrap()
main_trunk_id(t) == t.root[1]

\* id_tree Tree::ancestor_ids(id): the parent of id, then the parent's
\* parent, and so on while there is a parent.
RECURSIVE AncestorIds(_, _)
AncestorIds(t, id) ==
    LET parent == NodeOf(t, id).parent
    IN  IF parent = None
        THEN <<>>
        ELSE <<parent[1]>> \o AncestorIds(t, parent[1])

\* id_tree Tree::children_ids(id): the children vector, front to back.
ChildrenIds(t, id) == NodeOf(t, id).children

\* A plausible slip: the once(&branch_id) link of the chain is left out.
traverse_upwards_branch_ids_without_self(t, branch_id) ==
    AncestorIds(t, branch_id)

\* TruthTree::traverse_upwards_branch_ids:
\* once(&branch_id.0).chain(tree.ancestor_ids(&branch_id.0))
traverse_upwards_branch_ids(t, branch_id) ==
    <<branch_id>> \o AncestorIds(t, branch_id)

\* The sequence s back to front (Vec iteration with .rev()).
Reverse(s) == [i \in 1..Len(s) |-> s[Len(s) + 1 - i]]

\* IdsIter: the iterator pops the id on top of its stack (the end of the
\* vector), yields it, and pushes its children so that the first child is
\* on top; it ends when the stack is empty.  The operator is the sequence of
\* ids the iterator yields from the given stack.
RECURSIVE IdsIter(_, _)
IdsIter(t, stack) ==
    IF stack = <<>>
    THEN <<>>
    ELSE LET top == stack[Len(stack)]
             rest == SubSeq(stack, 1, Len(stack) - 1)
         IN  <<top>> \o IdsIter(t, rest \o Reverse(ChildrenIds(t, top)))

\* A plausible slip: the traversal starts at the main trunk whatever
\* branch_id is.
traverse_downwards_branches_ids_from_root(t, branch_id) ==
    IdsIter(t, <<main_trunk_id(t)>>)

\* TruthTree::traverse_downwards_branches_ids:
\* IdsIter { tree, stack: vec![&branch_id.0] }
traverse_downwards_branches_ids(t, branch_id) ==
    IdsIter(t, <<branch_id>>)

\* A plausible slip: the iterator over all descendants is handed out in
\* place of the iterator over the children.
traverse_branch_direct_descendants_ids_all(t, branch_id) ==
    Tail(traverse_downwards_branches_ids(t, branch_id))

\* TruthTree::traverse_branch_direct_descendants_ids:
\* tree.children_ids(&branch_id.0).unwrap()
traverse_branch_direct_descendants_ids(t, branch_id) ==
    ChildrenIds(t, branch_id)

\* A plausible slip, the one the name invites: true iff the branch is the
\* last of its parent's children (the root, having no parent, counts).
branch_is_last_child_of_parent(t, branch_id) ==
    LET parent == NodeOf(t, branch_id).parent
    IN  \/ parent = None
        \/ LET siblings == ChildrenIds(t, parent[1])
           IN  siblings[Len(siblings)] = branch_id

\* TruthTree::branch_is_last_child:
\* tree.get(&branch_id.0).expect(..).children().is_empty()
branch_is_last_child(t, branch_id) ==
    NodeOf(t, branch_id).children = <<>>

\* TruthTree::branch_from_id: tree.get(&branch_id.0).expect(..).data()
branch_from_id(t, branch_id) == NodeOf(t, branch_id).data

\* TruthTree::branch_from_id_mut: the same branch, borrowed mutably.
branch_from_id_mut(t, branch_id) == NodeOf(t, branch_id).data

\* A write through the reference branch_from_id_mut hands out.
StoreBranch(t, branch_id, branch) ==
    [t EXCEPT !.nodes[branch_id.index].data = branch]

\* A plausible slip: the filter forgets branch_is_last_child.
is_open_any_unclosed(t) ==
    LET Unclosed(x) == ~BranchIsClosed(branch_from_id(t, x))
    IN  Len(SelectSeq(traverse_downwards_branches_ids(t, main_trunk_id(t)),
                      Unclosed)) > 0

\* TruthTree::is_open: the downwards traversal from the main trunk,
\* filtered to the unclosed branches without children, counted; open iff
\* the count is above 0.
is_open(t) ==
    LET OpenLeaf(x) ==
            /\ branch_is_last_child(t, x)
            /\ ~BranchIsClosed(branch_from_id(t, x))
    IN  Len(SelectSeq(traverse_downwards_branches_ids(t, main_trunk_id(t)),
                      OpenLeaf)) > 0

\* id_tree Tree::insert(node, UnderNode(parent_id)): the node takes the next
\* index of the arena, its parent is parent_id, and its id is pushed at the
\* back of the parent's children.  The result is the tree and the new id.
InsertUnderNode(t, node, parent_id) ==
    LET new_id == TreeId(t.id, Len(t.nodes) + 1)
        placed == [node EXCEPT !.parent = Some(parent_id)]
    IN  [tree |-> [t EXCEPT
                     !.nodes = Append(
                         [@ EXCEPT ![parent_id.index].children =
                                       Append(@, new_id)],
                         placed)],
         id   |-> new_id]

\* id_tree Tree::insert(node, AsRoot): the node becomes the root and the
\* former root its only child.
InsertAsRoot(t, node) ==
    LET new_id == TreeId(t.id, Len(t.nodes) + 1)
        old_root == t.root[1]
        placed == [node EXCEPT !.children = <<old_root>>]
    IN  [tree |-> [t EXCEPT
                     !.root = Some(new_id),
                     !.nodes = Append(
                         [@ EXCEPT ![old_root.index].parent = Some(new_id)],
                         placed)],
         id   |-> new_id]

\* A plausible slip: the assertion on the parent's closed flag is missing.
append_branch_at_unchecked(t, branch, as_child_of_branch_id) ==
    IF ~IsValidNodeId(t, as_child_of_branch_id)
    THEN Panicked(t)
    ELSE LET ins == InsertUnderNode(t, NodeNew(branch), as_child_of_branch_id)
         IN  Returned(ins.tree, Some(ins.id))

\* A plausible slip: the id handed back is the parent's, not the new one.
append_branch_at_returns_parent(t, branch, as_child_of_branch_id) ==
    IF ~IsValidNodeId(t, as_child_of_branch_id)
    THEN Panicked(t)
    ELSE IF BranchIsClosed(branch_from_id(t, as_child_of_branch_id))
    THEN Panicked(t)
    ELSE LET ins == InsertUnderNode(t, NodeNew(branch), as_child_of_branch_id)
         IN  Returned(ins.tree, Some(as_child_of_branch_id))

\* A plausible slip: the wrong InsertBehavior, AsRoot for UnderNode.
append_branch_at_as_root(t, branch, as_child_of_branch_id) ==
    IF ~IsValidNodeId(t, as_child_of_branch_id)
    THEN Panicked(t)
    ELSE IF BranchIsClosed(branch_from_id(t, as_child_of_branch_id))
    THEN Panicked(t)
    ELSE LET ins == InsertAsRoot(t, NodeNew(branch))
         IN  Returned(ins.tree, Some(ins.id))

\* A plausible slip: the assertion looks at the whole path to the root, so
\* that a closed ancestor refuses the child as a closed parent does.
append_branch_at_checks_ancestors(t, branch, as_child_of_branch_id) ==
    IF ~IsValidNodeId(t, as_child_of_branch_id)
    THEN Panicked(t)
    ELSE IF \E i \in DOMAIN traverse_upwards_branch_ids(t, as_child_of_branch_id) :
                BranchIsClosed(branch_from_id(
                    t, traverse_upwards_branch_ids(t, as_child_of_branch_id)[i]))
    THEN Panicked(t)
    ELSE LET ins == InsertUnderNode(t, NodeNew(branch), as_child_of_branch_id)
         IN  Returned(ins.tree, Some(ins.id))

\* TruthTree::append_branch_at: branch_from_id panics on an id that is not
\* of this tree ("invalid branch_id"); the assertion panics when the parent
\* is closed ("attempt to add child to closed branch"); otherwise the node
\* is inserted under the parent and its id returned.
append_branch_at(t, branch, as_child_of_branch_id) ==
    IF ~IsValidNodeId(t, as_child_of_branch_id)
    THEN Panicked(t)
    ELSE IF BranchIsClosed(branch_from_id(t, as_child_of_branch_id))
    THEN Panicked(t)
    ELSE LET ins == InsertUnderNode(t, NodeNew(branch), as_child_of_branch_id)
         IN  Returned(ins.tree, Some(ins.id))

\* truth_tree.branch_from_id_mut(&id).close(): panics on an id that is not
\* of this tree, else closes the branch in place.
close(t, branch_id) ==
    IF ~IsValidNodeId(t, branch_id)
    THEN Panicked(t)
    ELSE Returned(StoreBranch(t, branch_id,
                              BranchClose(branch_from_id_mut(t, branch_id))),
                  None)

\* truth_tree.branch_from_id_mut(&id).append_statement(node): panics on an
\* id that is not of this tree and when the branch refuses the statement,
\* else appends the statement in place.
append_statement(t, branch_id, node) ==
    IF ~IsValidNodeId(t, branch_id)
    THEN Panicked(t)
    ELSE IF BranchAppendStatementPanics(branch_from_id_mut(t, branch_id))
    THEN Panicked(t)
    ELSE Returned(StoreBranch(t, branch_id,
                     BranchAppendStatement(branch_from_id_mut(t, branch_id),
                                           node)),
                  None)

\* ----------------------------------------------------------------- state
\* tree: the TruthTree.
\* last: the last call made on the tree: its name, the branch id given to
\*   it, whether it found that branch closed, what it returned and whether
\*   it panicked.  A panic ends the run.
\* appends: the log of the append_branch_at calls that returned: the
\*   parent id given, the statements of the branch given, the id returned.
\* appendedTo: for every branch id handed out, the statements given to the
\*   append_statement calls on it that returned, in call order.
\* source: the text handed to Parser::parse, a sequence of characters.
\* parsed: None before the call; after it, what the call came to (a value
\*   returned or a panic) and the scope stacks the lowering went through.
\* numerals: two optional numerals (digit strings) to decode and compare.
\* decoded: None before the decoding; after it, the subscripts and the
\*   degree decoded from the numerals and the outcome of comparing them.
VARIABLES tree, last, appends, appendedTo, source, parsed, numerals, decoded

vars == <<tree, last, appends, appendedTo, source, parsed, numerals, decoded>>

\* The call record kept in last, for a call made on tree t.
Call(t, op, id, result) ==
    [op           |-> op,
     id           |-> id,
     found_closed |-> IsValidNodeId(t, id) /\ BranchIsClosed(branch_from_id(t, id)),
     ret          |-> result.ret,
     panic        |-> result.panic]

\* The ids a caller can hold: those of this tree's branches, and an id of
\* some other tree.
CallerIds == NodeIds(tree) \cup {ForeignId}

\* The number of statements in the sequences of f over the ids in S.
RECURSIVE SumLen(_, _)
SumLen(f, S) ==
    IF S = {}
    THEN 0
    ELSE LET x == CHOOSE y \in S : TRUE
         IN  Len(f[x]) + SumLen(f, S \ {x})

\* let truth_tree = TruthTree::new(Branch::new(vec![node]))
TreeInit ==
    /\ tree = TruthTreeNew(BranchNew(<<Seed(1)>>))
    /\ last = Call(tree, "new", TreeId(ThisTree, 1), Returned(tree, None))
    /\ appends = <<>>
    /\ appendedTo = (TreeId(ThisTree, 1) :> <<>>)

\* A truth tree just built; no text has been handed to the parser and no
\* numerals to the decoder.
Init ==
    /\ TreeInit
    /\ source = <<>> /\ parsed = None
    /\ numerals = <<>> /\ decoded = None

\* truth_tree.append_branch_at(Branch::new(vec![node]), &parent_id)
AppendBranchAt ==
    \E parent_id \in CallerIds :
        LET node == Seed(Len(appends) + 2)
            result == append_branch_at(tree, BranchNew(<<node>>), parent_id)
        IN  /\ ~last.panic
            /\ result.panic \/ Len(tree.nodes) < MaxBranches
            /\ tree' = result.tree
            /\ last' = Call(tree, "append_branch_at", parent_id, result)
            /\ IF result.panic
               THEN UNCHANGED <<appends, appendedTo>>
               ELSE /\ appends' = Append(appends,
                                         [parent |-> parent_id,
                                          nodes  |-> <<node>>,
                                          id     |-> result.ret[1]])
                    /\ appendedTo' = appendedTo @@ (result.ret[1] :> <<>>)
            /\ UNCHANGED <<source, parsed, numerals, decoded>>

\* truth_tree.branch_from_id_mut(&branch_id).append_statement(node)
AppendStatement ==
    \E branch_id \in CallerIds :
        LET made == SumLen(appendedTo, DOMAIN appendedTo)
            node == Derived(made + 1)
            result == append_statement(tree, branch_id, node)
        IN  /\ ~last.panic
            /\ result.panic \/ made < MaxAppended
            /\ tree' = result.tree
            /\ last' = Call(tree, "append_statement", branch_id, result)
            /\ appendedTo' = IF result.panic
                             THEN appendedTo
                             ELSE [appendedTo EXCEPT
                                       ![branch_id] = Append(@, node)]
            /\ UNCHANGED <<appends, source, parsed, numerals, decoded>>

\* truth_tree.branch_from_id_mut(&branch_id).close()
Close ==
    \E branch_id \in CallerIds :
        LET result == close(tree, branch_id)
        IN  /\ ~last.panic
            /\ tree' = result.tree
            /\ last' = Call(tree, "close", branch_id, result)
            /\ UNCHANGED <<appends, appendedTo, source, parsed, numerals, decoded>>

Next == AppendBranchAt \/ AppendStatement \/ Close

Spec == Init /\ [][Next]_vars

\* ------------------------------------------------------ what was asked for
\* The vocabulary of the properties below, read off the log of calls and
\* not off the tree.

\* Every branch id handed out: the root's and those append_branch_at
\* returned.
BranchIds == DOMAIN appendedTo

\* The ids append_branch_at returned for the branches appended under p, in
\* call order.
AppendedUnder(p) ==
    LET IsUnder(a) == a.parent = p
        under == SelectSeq(appends, IsUnder)
    IN  [i \in 1..Len(under) |-> under[i].id]

\* The ids append_branch_at returned, in call order.
ReturnedIds == [i \in 1..Len(appends) |-> appends[i].id]

\* The parent id given to the call that returned x; None for an id that no
\* call returned (the root's).
ParentGiven(x) ==
    IF \E i \in 1..Len(appends) : appends[i].id = x
    THEN Some(appends[CHOOSE i \in 1..Len(appends) : appends[i].id = x].parent)
    ELSE None

\* The pre-order of the branches appended, directly or not, under x: x,
\* then the pre-order of each branch appended under x, in call order.
RECURSIVE PreOrderOfAll(_)
PreOrder(x) == <<x>> \o PreOrderOfAll(AppendedUnder(x))
PreOrderOfAll(ids) ==
    IF ids = <<>>
    THEN <<>>
    ELSE PreOrder(Head(ids)) \o PreOrderOfAll(Tail(ids))

\* No element of the sequence occurs twice.
NoRepeat(s) == \A i, j \in 1..Len(s) : s[i] = s[j] => i = j

\* The elements of a sequence.
Range(s) == {s[i] : i \in 1..Len(s)}

\* A branch that is not closed.
Unclosed(b) == ~BranchIsClosed(branch_from_id(tree, b))

\* ------------------------------------------------------------------- C1
\* C1: in every reachable tree, is_open() is true if and only if some branch
\* under which nothing was appended is not closed.  (The freshly built tree,
\* whose unclosed root has no children, is therefore open; a tree whose
\* leaves are all closed is not.)
C1_IsOpenIffUnclosedLeaf ==
    is_open(tree) <=>
        \E b \in BranchIds : AppendedUnder(b) = <<>> /\ Unclosed(b)

\* C1 witness: a tree that is not open although an interior branch is
\* unclosed, all of its three or more branches' leaves being closed.
C1_Witness ==
    /\ ~last.panic
    /\ Cardinality(BranchIds) >= 3
    /\ ~is_open(tree)
    /\ \E b \in BranchIds : AppendedUnder(b) # <<>> /\ Unclosed(b)

\* ------------------------------------------------------------------- C2
\* C2: a call append_branch_at(child, parent_id) made while parent_id is
\* closed panics and leaves the tree exactly as it was.
C2_AppendUnderClosedPanics ==
    [][\A p \in BranchIds :
          (/\ last'.op = "append_branch_at"
           /\ last'.id = p
           /\ BranchIsClosed(branch_from_id(tree, p)))
          => (last'.panic /\ last'.ret = None /\ tree' = tree)]_vars

\* C2 witness: the last call was an append_branch_at under a closed branch
\* of a tree that already has children, and it panicked.
C2_Witness ==
    /\ last.op = "append_branch_at"
    /\ last.panic
    /\ last.id \in BranchIds
    /\ BranchIsClosed(branch_from_id(tree, last.id))
    /\ AppendedUnder(last.id) # <<>>

\* ------------------------------------------------------------------- C3
\* C3: a call append_branch_at(child, parent_id) that returns hands back the
\* id of the new last child of parent_id, and for every branch p the direct
\* descendants of p are exactly the ids returned for the branches appended
\* under p (no grandchildren), in the order of the calls.
C3_DirectDescendantsAreAppended ==
    /\ \A p \in BranchIds :
          traverse_branch_direct_descendants_ids(tree, p) = AppendedUnder(p)
    /\ (last.op = "append_branch_at" /\ ~last.panic) =>
          LET kids == traverse_branch_direct_descendants_ids(tree, last.id)
          IN  /\ last.ret # None
              /\ kids # <<>>
              /\ kids[Len(kids)] = last.ret[1]

\* C3 witness: a branch with two children, the first of which has a child
\* of its own appended before the second was.
C3_Witness ==
    \E p \in BranchIds :
        LET kids == traverse_branch_direct_descendants_ids(tree, p)
        IN  /\ Len(kids) = 2
            /\ AppendedUnder(kids[1]) # <<>>
            /\ last.op = "append_branch_at"
            /\ ~last.panic
            /\ last.ret = Some(kids[2])

\* ------------------------------------------------------------------- C4
\* C4: for every branch id x, the upwards traversal from x starts with x,
\* goes on with the branch each one was appended under, ends with the root,
\* and repeats no id; from the root it is exactly the root.
C4_UpwardsIsPathToRoot ==
    \A x \in BranchIds :
        LET up == traverse_upwards_branch_ids(tree, x)
        IN  /\ up # <<>>
            /\ up[1] = x
            /\ \A i \in 1..(Len(up) - 1) : Some(up[i + 1]) = ParentGiven(up[i])
            /\ up[Len(up)] = main_trunk_id(tree)
            /\ NoRepeat(up)
            /\ (x = main_trunk_id(tree) => up = <<x>>)

\* C4 witness: a branch three levels below the root.
C4_Witness ==
    \E x \in BranchIds :
        /\ Len(traverse_upwards_branch_ids(tree, x)) >= 4
        /\ Cardinality(BranchIds) = MaxBranches

\* ------------------------------------------------------------------- C5
\* C5: the downwards traversal from x is the pre-order of the subtree of x:
\* x first, then the subtree of each child in the order the children were
\* appended; from the root it visits every branch exactly once, so its
\* length is the number of branches.
C5_DownwardsIsPreOrder ==
    /\ \A x \in BranchIds :
          traverse_downwards_branches_ids(tree, x) = PreOrder(x)
    /\ LET down == traverse_downwards_branches_ids(tree, main_trunk_id(tree))
       IN  /\ NoRepeat(down)
           /\ Range(down) = BranchIds
           /\ Len(down) = Len(appends) + 1

\* C5 witness: the root has two children and the first has a child that was
\* appended last of all, so pre-order differs from the order of creation.
C5_Witness ==
    LET root == main_trunk_id(tree)
        kids == AppendedUnder(root)
    IN  /\ Len(kids) = 2
        /\ AppendedUnder(kids[1]) # <<>>
        /\ ReturnedIds[Len(ReturnedIds)] = AppendedUnder(kids[1])[1]
        /\ traverse_downwards_branches_ids(tree, root)
              = <<root, kids[1], AppendedUnder(kids[1])[1], kids[2]>>

\* ------------------------------------------------------------------- C6
\* C6: branch ids are unique and stable: the ids append_branch_at returned
\* differ from one another and from main_trunk_id(), and each still names
\* the branch it was returned for: the statements of that branch are those
\* it was inserted with followed by those appended to it since.
C6_IdsUniqueAndStable ==
    /\ NoRepeat(ReturnedIds)
    /\ main_trunk_id(tree) \notin Range(ReturnedIds)
    /\ \A i \in 1..Len(appends) :
          LET id == appends[i].id
          IN  /\ IsValidNodeId(tree, id)
              /\ branch_from_id(tree, id).statements
                    = appends[i].nodes \o appendedTo[id]

\* C6 witness: a branch that was appended, then given a statement, and then
\* followed by further appended branches.
C6_Witness ==
    /\ Len(appends) >= 3
    /\ appendedTo[appends[1].id] # <<>>
    /\ last.op = "append_branch_at"
    /\ ~last.panic

\* ------------------------------------------------------------------- C7
\* C7: the closed flag is monotonic: close() leaves the branch closed, and
\* no call on the tree (a second close() included) makes a closed branch
\* unclosed.
C7_ClosedIsMonotonic ==
    [][/\ \A b \in BranchIds :
             BranchIsClosed(branch_from_id(tree, b))
                => BranchIsClosed(branch_from_id(tree', b))
       /\ (last'.op = "close" /\ ~last'.panic)
             => BranchIsClosed(branch_from_id(tree', last'.id))]_vars

\* C7 witness: close() was called on a branch that was closed already, in a
\* tree with other branches, and the branch is closed.
C7_Witness ==
    /\ last.op = "close"
    /\ ~last.panic
    /\ last.found_closed
    /\ BranchIsClosed(branch_from_id(tree, last.id))
    /\ Cardinality(BranchIds) >= 3

\* ------------------------------------------------------------------- C8
\* C8: close() on a branch that has children does not change is_open().
C8_ClosingInteriorKeepsIsOpen ==
    [][(/\ last'.op = "close"
        /\ ~last'.panic
        /\ AppendedUnder(last'.id) # <<>>)
       => (is_open(tree') <=> is_open(tree))]_vars

\* C8 witness: an unclosed branch with children has just been closed, and
\* the tree is open.
C8_Witness ==
    /\ last.op = "close"
    /\ ~last.panic
    /\ ~last.found_closed
    /\ AppendedUnder(last.id) # <<>>
    /\ is_open(tree)

\* ------------------------------------------------------------------- C9
\* The elements of s that are in S, in the order of s.
Restrict(s, S) ==
    LET InS(x) == x \in S
    IN  SelectSeq(s, InS)

\* C9: the tree only grows: every call leaves every branch in the tree,
\* under the same parent, its children of before in the same order; and
\* append_branch_at leaves the statements and the closed flag of every
\* branch of before as they were.
C9_TreeOnlyGrows ==
    [][\A b \in NodeIds(tree) :
          /\ IsValidNodeId(tree', b)
          /\ NodeOf(tree', b).parent = NodeOf(tree, b).parent
          /\ Restrict(ChildrenIds(tree', b), NodeIds(tree))
                = ChildrenIds(tree, b)
          /\ last'.op = "append_branch_at"
                => branch_from_id(tree', b) = branch_from_id(tree, b)]_vars

\* C9 witness: append_branch_at has just returned on a tree that already
\* had a closed branch, a branch with an appended statement and a branch
\* with a child.
C9_Witness ==
    /\ last.op = "append_branch_at"
    /\ ~last.panic
    /\ \E b \in BranchIds \ {last.ret[1]} :
          BranchIsClosed(branch_from_id(tree, b))
    /\ \E b \in BranchIds \ {last.ret[1]} : appendedTo[b] # <<>>
    /\ Len(ChildrenIds(tree, last.id)) >= 2

\* ------------------------------------------------------------------ C10
\* C10: branch_is_last_child(b) is true iff nothing was appended under b.
C10_LeafIffNoChildren ==
    \A b \in BranchIds :
        branch_is_last_child(tree, b) <=> AppendedUnder(b) = <<>>

\* C10: right after append_branch_at(c, p) returns, the query is false for p
\* and true for the new branch; and a branch for which it is false stays so.
C10_LeafAfterAppend ==
    /\ (last'.op = "append_branch_at" /\ ~last'.panic)
          => /\ ~branch_is_last_child(tree', last'.id)
             /\ branch_is_last_child(tree', last'.ret[1])
    /\ \A b \in BranchIds :
          ~branch_is_last_child(tree, b) => ~branch_is_last_child(tree', b)

\* C10: the leaf query is true iff the branch has no children; it is false
\* for p and true for the new branch right after append_branch_at(c, p); a
\* branch that is not a leaf never becomes one again.
C10_LeafQuery == []C10_LeafIffNoChildren /\ [][C10_LeafAfterAppend]_vars

\* C10 witness: append_branch_at has just returned the second child of a
\* branch whose first child has a child.
C10_Witness ==
    /\ last.op = "append_branch_at"
    /\ ~last.panic
    /\ Len(AppendedUnder(last.id)) >= 2
    /\ AppendedUnder(AppendedUnder(last.id)[1]) # <<>>
    /\ branch_is_last_child(tree, last.ret[1])
    /\ ~branch_is_last_child(tree, last.id)

(***************************************************************************)
(* frege-rs: the parser of src/parser.rs.                                  *)
(*                                                                         *)
(* Parser::parse hands the text to the grammar, which answers with a       *)
(* syntax error or with a tree of pairs (a rule, the span of text it       *)
(* matched, the pairs inside it), and lowers that tree to a ParseTree.     *)
(* A call comes to one of three ends: Ok(value), Err(error), or a panic.   *)
(***************************************************************************)

\* ------------------------------------------------------- parser bounds
\* The largest number of digits of the numerals whose value is compared
\* with their decimal reading.
MaxDigits == 2
\* The largest number of zeros written in front of a numeral.
MaxLeadingZeros == 1

\* -------------------------------------------------------------- outcomes
\* Result::Ok(v), Result::Err(e), and a call that panicked (an unwrap of
\* an Err or a None, a failed assert!, an unreachable!).
Ok(v) == [kind |-> "Ok", value |-> v]
Err(e) == [kind |-> "Err", error |-> e]
Panic(message) == [kind |-> "Panic", message |-> message]

\* ------------------------------------------------------------------- u64
\* A u64 is held as its decimal digits, most significant first and without
\* leading zeros (<<0>> is zero): u64::MAX is beyond the integers at hand.
U64MaxDigits == <<1, 8, 4, 4, 6, 7, 4, 4, 0, 7, 3, 7, 0, 9, 5, 5, 1, 6, 1, 5>>

\* The digits of a number that is more than u64::MAX.
ExceedsU64(digits) ==
    \/ Len(digits) > Len(U64MaxDigits)
    \/ /\ Len(digits) = Len(U64MaxDigits)
       /\ \E i \in 1..Len(digits) :
             /\ digits[i] > U64MaxDigits[i]
             /\ \A j \in 1..(i - 1) : digits[j] = U64MaxDigits[j]

\* n as u64, for a length n
RECURSIVE U64FromLen(_)
U64FromLen(n) ==
    IF n < 10 THEN <<n>> ELSE Append(U64FromLen(n \div 10), n % 10)

\* char::to_digit(10) on the ASCII digits
DecimalDigit ==
    ("0" :> 0) @@ ("1" :> 1) @@ ("2" :> 2) @@ ("3" :> 3) @@ ("4" :> 4) @@
    ("5" :> 5) @@ ("6" :> 6) @@ ("7" :> 7) @@ ("8" :> 8) @@ ("9" :> 9)

\* The loop of str::parse::<u64>: result = result * 10 + digit, with an
\* InvalidDigit error on any other character and a PosOverflow error as
\* soon as the result leaves u64.
RECURSIVE ParseU64From(_, _)
ParseU64From(acc, rest) ==
    IF rest = <<>> THEN Ok(acc)
    ELSE IF Head(rest) \notin DOMAIN DecimalDigit THEN Err("InvalidDigit")
    ELSE LET digit == DecimalDigit[Head(rest)]
             result == IF acc = <<0>> THEN <<digit>> ELSE Append(acc, digit)
         IN  IF ExceedsU64(result) THEN Err("PosOverflow")
             ELSE ParseU64From(result, Tail(rest))

\* str::parse::<u64>
ParseU64(str) == IF str = <<>> THEN Err("Empty") ELSE ParseU64From(<<0>>, str)

\* Result::unwrap
Unwrap(result) ==
    IF result.kind = "Ok" THEN result
    ELSE Panic("called Result::unwrap() on an Err value")

\* ------------------------------------------------------------- Subscript
\* Subscript(Option<u64>); a Degree(u64) is the u64 itself.
Subscript(option) == option

\* #[derive(PartialEq)] on Subscript: the equality of Option<u64>.
SubscriptEq(lhs, rhs) ==
    CASE lhs = None /\ rhs = None -> TRUE
      [] lhs # None /\ rhs # None -> lhs[1] = rhs[1]
      [] OTHER -> FALSE

\* A plausible slip: an absent subscript is read as the subscript 0.
SubscriptEqU64AbsentIsZero(subscript, rhs) ==
    IF subscript = None THEN <<0>> = rhs ELSE subscript[1] = rhs

\* impl PartialEq<u64> for Subscript
SubscriptEqU64(subscript, rhs) ==
    IF subscript # None THEN subscript[1] = rhs ELSE FALSE

\* impl PartialEq<u64> for Degree
DegreeEqU64(degree, rhs) == degree = rhs

\* ----------------------------------------------------------------- pairs
\* pest's Pair: the rule, the offset at which its span starts, the text of
\* the span (as_str, a sequence of characters) and the pairs inside it.
Pair(rule, start, str, inner) ==
    [rule |-> rule, start |-> start, str |-> str, inner |-> inner]

\* ------------------------------------------------------ numeral decoding
\* The match of subscript_into_ast: subscript digit to ASCII digit.
SubscriptToAscii ==
    ("U+2080" :> "0") @@ ("U+2081" :> "1") @@ ("U+2082" :> "2") @@
    ("U+2083" :> "3") @@ ("U+2084" :> "4") @@ ("U+2085" :> "5") @@
    ("U+2086" :> "6") @@ ("U+2087" :> "7") @@ ("U+2088" :> "8") @@
    ("U+2089" :> "9")

\* The match of predicate_letter_into_ast: superscript digit to ASCII digit.
SuperscriptToAscii ==
    ("U+2070" :> "0") @@ ("U+00B9" :> "1") @@ ("U+00B2" :> "2") @@
    ("U+00B3" :> "3") @@ ("U+2074" :> "4") @@ ("U+2075" :> "5") @@
    ("U+2076" :> "6") @@ ("U+2077" :> "7") @@ ("U+2078" :> "8") @@
    ("U+2079" :> "9")

\* .chars().map(|x| match x {..}).collect::<String>().parse().unwrap():
\* a character outside the table reaches unreachable!.
DecodeNumeral(str, table) ==
    IF \E i \in 1..Len(str) : str[i] \notin DOMAIN table
    THEN Panic("should never reach here")
    ELSE Unwrap(ParseU64([i \in 1..Len(str) |-> table[str[i]]]))

\* subscript_into_ast
subscript_into_ast(pair) ==
    IF pair.rule # "subscript_number"
    THEN Panic("assertion failed")
    ELSE LET number == DecodeNumeral(pair.str, SubscriptToAscii)
         IN  IF number.kind = "Ok" THEN Ok(Subscript(Some(number.value)))
             ELSE number

\* match inner.peek() { Some(_) => subscript_into_ast(inner.next()),
\*                      None => Subscript(None) }
optional_subscript_into_ast(inner) ==
    IF inner # <<>> THEN subscript_into_ast(Head(inner))
    ELSE Ok(Subscript(None))

\* The superscript of predicate_letter_into_ast: Degree(..parse().unwrap())
superscript_into_degree(pair) == DecodeNumeral(pair.str, SuperscriptToAscii)

\* ------------------------------------------------- the numerals decoded
\* The digits numerals are written with: the subscript digit and the
\* superscript digit for 0, 1, .. 9.
SubscriptGlyphs ==
    <<"U+2080", "U+2081", "U+2082", "U+2083", "U+2084",
      "U+2085", "U+2086", "U+2087", "U+2088", "U+2089">>
SuperscriptGlyphs ==
    <<"U+2070", "U+00B9", "U+00B2", "U+00B3", "U+2074",
      "U+2075", "U+2076", "U+2077", "U+2078", "U+2079">>

\* The text of a numeral: its decimal digits written with the glyphs.
Written(digits, glyphs) == [i \in 1..Len(digits) |-> glyphs[digits[i] + 1]]

\* k zeros
ZeroDigits(k) == [i \in 1..k |-> 0]

\* The decimal digit strings a and b denote the same integer: they are the
\* same once the shorter has zeros put in front of it.
SameNumber(a, b) ==
    LET n == IF Len(a) > Len(b) THEN Len(a) ELSE Len(b)
    IN  ZeroDigits(n - Len(a)) \o a = ZeroDigits(n - Len(b)) \o b

\* A decimal digit string without superfluous zeros in front.
Canonical(digits) == Len(digits) = 1 \/ digits[1] # 0

\* u64::MAX + 1 = 18446744073709551616
U64MaxPlusOneDigits ==
    <<1, 8, 4, 4, 6, 7, 4, 4, 0, 7, 3, 7, 0, 9, 5, 5, 1, 6, 1, 6>>

\* The numerals decoded, each of which may be absent: every string of up
\* to MaxDigits of the digits 0, 1, 9 (leading zeros and all-zero strings
\* among them), and u64::MAX and its successor behind up to
\* MaxLeadingZeros zeros.
OptionalNumerals ==
    LET short == UNION {[1..n -> {0, 1, 9}] : n \in 1..MaxDigits}
        long == {ZeroDigits(k) \o n :
                    k \in 0..MaxLeadingZeros,
                    n \in {U64MaxDigits, U64MaxPlusOneDigits}}
    IN  {None} \cup {Some(n) : n \in short \cup long}

\* The pairs left in `inner` where a subscript may follow: none for an
\* absent numeral, one subscript_number pair otherwise.
SubscriptPairs(numeral) ==
    IF numeral = None THEN <<>>
    ELSE <<Pair("subscript_number", 0, Written(numeral[1], SubscriptGlyphs),
                <<>>)>>

\* The superscript_number pair of a numeral.
SuperscriptPair(digits) ==
    Pair("superscript_number", 0, Written(digits, SuperscriptGlyphs), <<>>)

\* Two optional numerals are at hand; nothing is decoded yet.
NumInit ==
    /\ TreeInit
    /\ source = <<>> /\ parsed = None
    /\ numerals \in [lhs : OptionalNumerals, rhs : OptionalNumerals]
    /\ decoded = None

\* Both numerals are decoded as subscripts, the left one (if present) also
\* as a degree; if both subscripts were decoded they are compared, with
\* each other (Subscript == Subscript) and the left with the integer the
\* right holds (Subscript == u64).
DecodeNumerals ==
    /\ numerals # <<>>
    /\ decoded = None
    /\ LET lhs == optional_subscript_into_ast(SubscriptPairs(numerals.lhs))
           rhs == optional_subscript_into_ast(SubscriptPairs(numerals.rhs))
           both == lhs.kind = "Ok" /\ rhs.kind = "Ok"
       IN  decoded' = Some([
               lhs |-> lhs,
               rhs |-> rhs,
               degree |-> IF numerals.lhs = None THEN None
                          ELSE Some(superscript_into_degree(
                                        SuperscriptPair(numerals.lhs[1]))),
               eq |-> IF both THEN Some(SubscriptEq(lhs.value, rhs.value))
                      ELSE None,
               eq_u64 |-> IF both /\ rhs.value # None
                          THEN Some(SubscriptEqU64(lhs.value, rhs.value[1]))
                          ELSE None])
    /\ UNCHANGED <<tree, last, appends, appendedTo, source, parsed, numerals>>

NumSpec == NumInit /\ [][DecodeNumerals]_vars

\* ----------------------------------------------------------- claim C16
\* C16: two Subscript values are equal iff both are absent or both hold
\* equal integers, so Subscript(None) != Subscript(Some(0)); a Subscript
\* equals a bare integer n iff it is present and holds n (an absent
\* subscript equals no integer, not even 0).
C16_SubscriptIdentity ==
    (decoded # None /\ decoded[1].eq # None) =>
        LET d == decoded[1]
            lhs == d.lhs.value
            rhs == d.rhs.value
        IN  /\ d.eq[1] <=>
                  \/ numerals.lhs = None /\ numerals.rhs = None
                  \/ /\ numerals.lhs # None
                     /\ numerals.rhs # None
                     /\ SameNumber(numerals.lhs[1], numerals.rhs[1])
            /\ d.eq[1] <=>
                  \/ lhs = None /\ rhs = None
                  \/ lhs # None /\ rhs # None /\ lhs[1] = rhs[1]
            /\ (lhs = Subscript(None) /\ rhs = Subscript(Some(<<0>>)))
                  => d.eq = Some(FALSE)
            /\ (lhs = Subscript(Some(<<0>>)) /\ rhs = Subscript(None))
                  => d.eq = Some(FALSE)
            /\ d.eq_u64 # None =>
                  (d.eq_u64[1] <=> (lhs # None /\ lhs[1] = rhs[1]))
            /\ (lhs = Subscript(None) /\ d.eq_u64 # None)
                  => d.eq_u64 = Some(FALSE)

\* C16 witness: an absent subscript has been compared with the subscript 0
\* and with the integer 0, and both comparisons said "not equal".
C16_Witness ==
    /\ decoded # None
    /\ numerals.lhs = None
    /\ numerals.rhs # None
    /\ decoded[1].rhs = Ok(Subscript(Some(<<0>>)))
    /\ decoded[1].eq = Some(FALSE)
    /\ decoded[1].eq_u64 = Some(FALSE)

\* ----------------------------------------------------------- claim C18
\* What decoding the written numeral came to is the integer it denotes.
ReadAsDecimal(outcome, digits) ==
    /\ outcome.kind = "Ok"
    /\ Canonical(outcome.value)
    /\ SameNumber(outcome.value, digits)

\* C18: every subscript and superscript numeral is decoded digit by digit
\* and read as a decimal integer: a numeral with leading zeros decodes to
\* the same integer as the numeral without them (so the subscripts compare
\* equal), and a subscript of only zeros decodes to Some(0), not to an
\* absent subscript.
C18_NumeralsReadAsDecimal ==
    decoded # None =>
        LET d == decoded[1]
        IN  /\ \A side \in {"lhs", "rhs"} :
                  numerals[side] # None =>
                      /\ d[side].kind = "Ok"
                      /\ d[side].value # None
                      /\ ReadAsDecimal(Ok(d[side].value[1]), numerals[side][1])
                      /\ numerals[side][1] = ZeroDigits(Len(numerals[side][1]))
                            => d[side] = Ok(Subscript(Some(<<0>>)))
            /\ numerals.lhs # None =>
                  ReadAsDecimal(d.degree[1], numerals.lhs[1])
            /\ ( /\ numerals.lhs # None
                 /\ numerals.rhs # None
                 /\ SameNumber(numerals.lhs[1], numerals.rhs[1]) )
                  => d.lhs = d.rhs /\ d.eq = Some(TRUE)

(***************************************************************************)
(* The grammar (GRAMMAR.pest): pest_parser::GeneratedParser::parse.        *)
(*                                                                         *)
(* A text is a sequence of characters; a character outside ASCII is        *)
(* written as its codepoint ("U+2203" is the existential quantifier).      *)
(* Every rule is a function, rule_<name>, of the text and of the position  *)
(* it is tried at, answering with Fail or with the pair matched and the    *)
(* position after it; alternatives are tried in order and the first match  *)
(* stands.                                                                 *)
(* Punctuation, connectives and quantifiers leave no pair.  The texts      *)
(* parsed here carry no whitespace.                                        *)
(***************************************************************************)
Fail == [ok |-> FALSE]
Match(pair, next) == [ok |-> TRUE, pair |-> pair, next |-> next]

\* The character at a position; "EOI" past the end of the text.
At(src, pos) == IF pos <= Len(src) THEN src[pos] ELSE "EOI"

\* The pair of a rule that matched the text from `start` up to `next`.
Span(rule, src, start, next, inner) ==
    Pair(rule, start, SubSeq(src, start, next - 1), inner)

\* UPPER, LOWER_TERM (a-t) and LOWER_VAR (u-z)
UPPER ==
    {"A", "B", "C", "D", "E", "F", "G", "H", "I", "J", "K", "L", "M",
     "N", "O", "P", "Q", "R", "S", "T", "U", "V", "W", "X", "Y", "Z"}
LOWER_TERM ==
    {"a", "b", "c", "d", "e", "f", "g", "h", "i", "j",
     "k", "l", "m", "n", "o", "p", "q", "r", "s", "t"}
LOWER_VAR == {"u", "v", "w", "x", "y", "z"}

\* The digits of subscript and of superscript
SubscriptDigits == {SubscriptGlyphs[i] : i \in DOMAIN SubscriptGlyphs}
SuperscriptDigits == {SuperscriptGlyphs[i] : i \in DOMAIN SuperscriptGlyphs}

\* negation_connective, the binary connectives and the rule each makes of
\* two statements and of two predicates, the quantifiers and the rule each
\* makes.  The conclusion_indicator is "U+2234".
NegationConnective == {"~", "U+00AC"}
BinaryStatementRule ==
    ("&" :> "logical_conjunction") @@ ("U+2228" :> "logical_disjunction") @@
    ("U+2283" :> "logical_conditional")
BinaryPredicateRule ==
    ("&" :> "conjunctive_predicate") @@ ("U+2228" :> "disjunctive_predicate") @@
    ("U+2283" :> "conditional_predicate")
QuantifierRule ==
    ("U+2203" :> "existential_statement") @@ ("U+2200" :> "universal_statement")

\* The end of the longest run of characters of `set` that starts at pos.
RECURSIVE RunEnd(_, _, _)
RunEnd(src, pos, set) ==
    IF pos <= Len(src) /\ src[pos] \in set THEN RunEnd(src, pos + 1, set)
    ELSE pos

\* A rule's match of a text is computed once and handed on to what
\* follows it in the rule.
\* subscript := one or more subscript digits; superscript likewise
rule_subscript_number(src, pos) ==
    LET Run(next) ==
            IF next = pos THEN Fail
            ELSE Match(Span("subscript_number", src, pos, next, <<>>), next)
    IN  Run(RunEnd(src, pos, SubscriptDigits))

rule_superscript_number(src, pos) ==
    LET Run(next) ==
            IF next = pos THEN Fail
            ELSE Match(Span("superscript_number", src, pos, next, <<>>), next)
    IN  Run(RunEnd(src, pos, SuperscriptDigits))

\* A letter of the alphabet and an optional subscript:
\* simple_statement_letter := UPPER subscript?
\* singular_term := LOWER_TERM subscript?, variable := LOWER_VAR subscript?
rule_lettered(src, pos, rule, alpha_rule, alphabet) ==
    LET Lettered(alpha, sub) ==
            IF sub.ok
            THEN Match(Span(rule, src, pos, sub.next, <<alpha, sub.pair>>),
                       sub.next)
            ELSE Match(Span(rule, src, pos, pos + 1, <<alpha>>), pos + 1)
    IN  IF At(src, pos) \notin alphabet THEN Fail
        ELSE Lettered(Span(alpha_rule, src, pos, pos + 1, <<>>),
                      rule_subscript_number(src, pos + 1))

rule_simple_statement_letter(src, pos) ==
    rule_lettered(src, pos, "simple_statement_letter",
             "simple_statement_letter_alpha", UPPER)

rule_singular_term(src, pos) ==
    rule_lettered(src, pos, "singular_term", "singular_term_alpha", LOWER_TERM)

rule_variable(src, pos) ==
    rule_lettered(src, pos, "variable", "variable_alpha", LOWER_VAR)

\* predicate_letter := UPPER subscript? superscript
rule_predicate_letter(src, pos) ==
    LET Letter(alpha, sub, sup) ==
            IF ~sup.ok THEN Fail
            ELSE Match(Span("predicate_letter", src, pos, sup.next,
                            <<alpha>> \o (IF sub.ok THEN <<sub.pair>> ELSE <<>>)
                                \o <<sup.pair>>),
                       sup.next)
        Subscripted(sub) ==
            Letter(Span("predicate_letter_alpha", src, pos, pos + 1, <<>>), sub,
                   rule_superscript_number(
                       src, IF sub.ok THEN sub.next ELSE pos + 1))
    IN  IF At(src, pos) \notin UPPER THEN Fail
        ELSE Subscripted(rule_subscript_number(src, pos + 1))

\* term*: singular terms and, where allowed, variables, as many as follow.
RECURSIVE rule_terms(_, _, _)
rule_terms(src, pos, with_variables) ==
    LET Joint(first, rest) ==
            [pairs |-> <<first.pair>> \o rest.pairs, next |-> rest.next]
        First(first) ==
            IF ~first.ok THEN [pairs |-> <<>>, next |-> pos]
            ELSE Joint(first, rule_terms(src, first.next, with_variables))
        Term(term) ==
            IF term.ok \/ ~with_variables THEN First(term)
            ELSE First(rule_variable(src, pos))
    IN  Term(rule_singular_term(src, pos))

\* singular_statement := predicate_letter singular_term+
\* simple_predicate := predicate_letter term+
rule_applied(src, pos, rule, with_variables) ==
    LET Applied(letter, following) ==
            IF following.pairs = <<>> THEN Fail
            ELSE Match(Span(rule, src, pos, following.next,
                            <<letter.pair>> \o following.pairs),
                       following.next)
        Letter(letter) ==
            IF ~letter.ok THEN Fail
            ELSE Applied(letter, rule_terms(src, letter.next, with_variables))
    IN  Letter(rule_predicate_letter(src, pos))

\* A plausible slip: the terms of a singular statement may be variables.
rule_singular_statement_with_variables(src, pos) ==
    rule_applied(src, pos, "singular_statement", TRUE)

rule_singular_statement(src, pos) ==
    rule_applied(src, pos, "singular_statement", FALSE)

rule_simple_predicate(src, pos) ==
    rule_applied(src, pos, "simple_predicate", TRUE)

\* A match of `inner`, wrapped in a pair of `rule` with the same span.
Wrapped(rule, src, pos, inner) ==
    IF ~inner.ok THEN Fail
    ELSE Match(Span(rule, src, pos, inner.next, <<inner.pair>>), inner.next)

\* "~" operand, wrapped in a pair of `rule`.
Negated(rule, src, pos, r) ==
    IF ~r.ok THEN Fail
    ELSE Match(Span(rule, src, pos, r.next, <<r.pair>>), r.next)

\* "(" left connective right ")", wrapped in the pair the connective makes.
Connected(rules, src, pos, l, r) ==
    IF ~r.ok \/ At(src, r.next) # ")" THEN Fail
    ELSE Match(Span(rules[At(src, l.next)], src, pos, r.next + 1,
                    <<l.pair, r.pair>>),
               r.next + 1)

\* predicate := simple_predicate | compound_predicate
\* compound_predicate := "~" predicate | "(" predicate connective predicate ")"
RECURSIVE rule_predicate(_, _), rule_compound_predicate(_, _)
rule_predicate(src, pos) ==
    LET OrCompound(simple) ==
            IF simple.ok THEN simple ELSE rule_compound_predicate(src, pos)
    IN  Wrapped("predicate", src, pos, OrCompound(rule_simple_predicate(src, pos)))

rule_compound_predicate(src, pos) ==
    LET Left(l) ==
            IF ~l.ok \/ At(src, l.next) \notin DOMAIN BinaryPredicateRule
            THEN Fail
            ELSE Connected(BinaryPredicateRule, src, pos, l,
                           rule_predicate(src, l.next + 1))
    IN  Wrapped("compound_predicate", src, pos,
            IF At(src, pos) \in NegationConnective
            THEN Negated("negative_predicate", src, pos,
                         rule_predicate(src, pos + 1))
            ELSE IF At(src, pos) # "(" THEN Fail
            ELSE Left(rule_predicate(src, pos + 1)))

\* simple_statement := singular_statement | simple_statement_letter
rule_simple_statement(src, pos) ==
    LET OrLetter(singular) ==
            IF singular.ok THEN singular
            ELSE rule_simple_statement_letter(src, pos)
    IN  Wrapped("simple_statement", src, pos,
                OrLetter(rule_singular_statement(src, pos)))

\* statement := complex_statement | simple_statement
\* complex_statement := negation_connective statement
\*                    | "(" statement connective statement ")"
\*                    | quantifier variable predicate
RECURSIVE rule_statement(_, _), rule_complex_statement(_, _)
rule_statement(src, pos) ==
    LET OrSimple(complex) ==
            IF complex.ok THEN complex ELSE rule_simple_statement(src, pos)
    IN  Wrapped("statement", src, pos,
                OrSimple(rule_complex_statement(src, pos)))

rule_complex_statement(src, pos) ==
    LET Scoped(v, p) ==
            IF ~p.ok THEN Fail
            ELSE Match(Span(QuantifierRule[At(src, pos)], src, pos, p.next,
                            <<v.pair, p.pair>>),
                       p.next)
        Bound(v) ==
            IF ~v.ok THEN Fail ELSE Scoped(v, rule_predicate(src, v.next))
        Left(l) ==
            IF ~l.ok \/ At(src, l.next) \notin DOMAIN BinaryStatementRule
            THEN Fail
            ELSE Connected(BinaryStatementRule, src, pos, l,
                           rule_statement(src, l.next + 1))
    IN  Wrapped("complex_statement", src, pos,
            IF At(src, pos) \in NegationConnective
            THEN Negated("logical_negation", src, pos,
                         rule_statement(src, pos + 1))
            ELSE IF At(src, pos) \in DOMAIN QuantifierRule
            THEN Bound(rule_variable(src, pos + 1))
            ELSE IF At(src, pos) # "(" THEN Fail
            ELSE Left(rule_statement(src, pos + 1)))

\* statement ("," statement)*: the statements matched, each wrapped in a
\* pair of `rule` if one is given, and the position after the last.
RECURSIVE rule_statements(_, _, _)
rule_statements(src, pos, rule) ==
    LET Joint(first, rest) ==
            IF ~rest.ok THEN Fail
            ELSE [ok |-> TRUE, pairs |-> <<first.pair>> \o rest.pairs,
                  next |-> rest.next]
        First(first) ==
            IF ~first.ok THEN Fail
            ELSE IF At(src, first.next) # "," THEN
                [ok |-> TRUE, pairs |-> <<first.pair>>, next |-> first.next]
            ELSE Joint(first, rule_statements(src, first.next + 1, rule))
        Statement(st) ==
            First(IF rule = None THEN st ELSE Wrapped(rule[1], src, pos, st))
    IN  Statement(rule_statement(src, pos))

\* statement_set := "{" statement ("," statement)* "}"
rule_statement_set(src, pos) ==
    LET Members(sts) ==
            IF ~sts.ok \/ At(src, sts.next) # "}" THEN Fail
            ELSE Match(Span("statement_set", src, pos, sts.next + 1, sts.pairs),
                       sts.next + 1)
    IN  IF At(src, pos) # "{" THEN Fail
        ELSE Members(rule_statements(src, pos + 1, None))

\* argument := statement ("," statement)* conclusion_indicator statement
\* (the statements before the indicator are premises, the one after it is
\* the conclusion)
rule_argument(src, pos) ==
    LET Concluded(premises, conclusion) ==
            IF ~conclusion.ok THEN Fail
            ELSE Match(Span("argument", src, pos, conclusion.next,
                            Append(premises.pairs, conclusion.pair)),
                       conclusion.next)
        Premises(premises) ==
            IF ~premises.ok \/ At(src, premises.next) # "U+2234" THEN Fail
            ELSE Concluded(premises,
                           Wrapped("conclusion", src, premises.next + 1,
                                   rule_statement(src, premises.next + 1)))
    IN  Premises(rule_statements(src, pos, Some("premise")))

\* input := (statement_set | argument) EOI; GeneratedParser::parse answers
\* Ok(pairs), the pairs being the one input pair, or Err(a syntax error).
rule_input(src) ==
    LET Whole(inner) ==
            IF ~inner.ok \/ inner.next # Len(src) + 1 THEN Err("ParsingError")
            ELSE Ok(<<Span("input", src, 1, inner.next, <<inner.pair>>)>>)
        Set(set) == IF set.ok THEN Whole(set) ELSE Whole(rule_argument(src, 1))
    IN  Set(rule_statement_set(src, 1))

(***************************************************************************)
(* The lowering of the pairs to the AST (the *_into_ast methods).          *)
(*                                                                         *)
(* A method that returns a Result answers Ok(value) or Err(error); any     *)
(* method may panic instead, and a panic in a callee is one of the caller. *)
(***************************************************************************)
\* PredicateLetter(char, Subscript, Degree); a SingularTerm(char,
\* Subscript) and a Variable(char, Subscript) are built by lettered_into_ast.
PredicateLetter(alpha, subscript, degree) ==
    [alpha |-> alpha, subscript |-> subscript, degree |-> degree]

\* enum Term { SingularTerm(SingularTerm), Variable(Variable) }
TermSingularTerm(term) == [term |-> "SingularTerm", of |-> term]
TermVariable(var) == [term |-> "Variable", of |-> var]

\* enum Statement (Statement::Simple is Simple above) and enum Predicate
Singular(letter, terms) ==
    [statement |-> "Singular", letter |-> letter, terms |-> terms]
BinaryStatement(variant, l, r) == [statement |-> variant, left |-> l, right |-> r]
LogicalNegation(r) == [statement |-> "LogicalNegation", right |-> r]
Quantified(variant, var, pred) ==
    [statement |-> variant, variable |-> var, predicate |-> pred]
PredicateSimple(letter, terms) ==
    [predicate |-> "Simple", letter |-> letter, terms |-> terms]
BinaryPredicate(variant, l, r) == [predicate |-> variant, left |-> l, right |-> r]
PredicateNegative(r) == [predicate |-> "Negative", right |-> r]

\* enum ParseTree
StatementSet(sts) == [parse_tree |-> "StatementSet", statements |-> sts]
Argument(premises, conclusion) ==
    [parse_tree |-> "Argument", premises |-> premises, conclusion |-> conclusion]

\* Error::new_from_custom_error(pair.as_span(), message)
new_from_custom_error(pair, message) ==
    [message |-> message, start |-> pair.start,
     end |-> pair.start + Len(pair.str)]

\* Error::new_from_parsing_error(e)
new_from_parsing_error(e) == [message |-> e, start |-> 0, end |-> 0]

DegreeMismatch == "degree doesn't match number of terms specified"
NotInScope == "predicate binds to variable that isn't in scope"

\* assert!(pair.as_rule() == rule), and the unwrap of the inner.next() that
\* the method goes on with: a pair of another rule or with fewer pairs
\* inside than the method takes makes it panic.
Misfit(pair, rule, least) == pair.rule # rule \/ Len(pair.inner) < least

\* variable_into_ast, singular_term_into_ast: the letter and its subscript
lettered_into_ast(pair, rule) ==
    LET WithSubscript(subscript) ==
            IF subscript.kind # "Ok" THEN subscript
            ELSE Ok([alpha |-> pair.inner[1].str[1],
                     subscript |-> subscript.value])
    IN  IF Misfit(pair, rule, 1) THEN Panic("assertion failed")
        ELSE WithSubscript(optional_subscript_into_ast(Tail(pair.inner)))

\* variable_into_ast
variable_into_ast(pair) == lettered_into_ast(pair, "variable")

\* singular_term_into_ast
singular_term_into_ast(pair) == lettered_into_ast(pair, "singular_term")

\* predicate_letter_into_ast
predicate_letter_into_ast(pair) ==
    LET inner == pair.inner
        subscripted == inner[2].rule = "subscript_number"
        rest == IF subscripted THEN SubSeq(inner, 3, Len(inner)) ELSE Tail(inner)
        WithDegree(subscript, degree) ==
            IF degree.kind # "Ok" THEN degree
            ELSE Ok(PredicateLetter(inner[1].str[1], subscript.value,
                                    degree.value))
        WithSubscript(subscript) ==
            IF subscript.kind # "Ok" THEN subscript
            ELSE IF rest = <<>>
            THEN Panic("called Option::unwrap() on a None value")
            ELSE WithDegree(subscript, superscript_into_degree(Head(rest)))
    IN  IF Misfit(pair, "predicate_letter", 2) THEN Panic("assertion failed")
        ELSE IF subscripted THEN WithSubscript(subscript_into_ast(inner[2]))
        ELSE WithSubscript(Ok(Subscript(None)))

\* The terms of a singular statement or of a simple predicate, lowered in
\* order: .map(|x| match x.as_rule() { .. }).collect(); a pair of a rule
\* that is not among `rules` reaches unreachable!.
RECURSIVE terms_into_ast(_, _)
terms_into_ast(pairs, rules) ==
    LET x == Head(pairs)
        WithRest(first, rest) ==
            IF rest.kind # "Ok" THEN rest
            ELSE Ok(<<IF rules = {"singular_term"} THEN first.value
                      ELSE IF x.rule = "variable" THEN TermVariable(first.value)
                      ELSE TermSingularTerm(first.value)>>
                    \o rest.value)
        WithFirst(first) ==
            IF first.kind # "Ok" THEN first
            ELSE WithRest(first, terms_into_ast(Tail(pairs), rules))
    IN  IF pairs = <<>> THEN Ok(<<>>)
        ELSE CASE x.rule \notin rules -> Panic("should never reach here")
               [] x.rule = "singular_term" -> WithFirst(singular_term_into_ast(x))
               [] x.rule = "variable" -> WithFirst(variable_into_ast(x))

\* A plausible slip: the degree is not compared with the number of terms.
singular_statement_into_ast_unchecked(pair) ==
    LET WithTerms(predicate_letter, terms) ==
            IF terms.kind # "Ok" THEN terms
            ELSE Ok(Singular(predicate_letter.value, terms.value))
        WithLetter(predicate_letter) ==
            IF predicate_letter.kind # "Ok" THEN predicate_letter
            ELSE WithTerms(predicate_letter,
                           terms_into_ast(Tail(pair.inner), {"singular_term"}))
    IN  WithLetter(predicate_letter_into_ast(pair.inner[1]))

\* singular_statement_into_ast
singular_statement_into_ast(pair) ==
    LET WithTerms(predicate_letter, terms) ==
            IF terms.kind # "Ok" THEN terms
            ELSE IF ~DegreeEqU64(predicate_letter.value.degree,
                                 U64FromLen(Len(terms.value)))
            THEN Err(new_from_custom_error(pair, DegreeMismatch))
            ELSE Ok(Singular(predicate_letter.value, terms.value))
        WithLetter(predicate_letter) ==
            IF predicate_letter.kind # "Ok" THEN predicate_letter
            ELSE WithTerms(predicate_letter,
                           terms_into_ast(Tail(pair.inner), {"singular_term"}))
    IN  IF Misfit(pair, "singular_statement", 1) THEN Panic("assertion failed")
        ELSE WithLetter(predicate_letter_into_ast(pair.inner[1]))

\* simple_statement_into_ast
simple_statement_into_ast(pair) ==
    LET inner == pair.inner[1]
        WithSubscript(subscript) ==
            IF subscript.kind # "Ok" THEN subscript
            ELSE Ok(Simple(inner.inner[1].str[1], subscript.value))
    IN  IF Misfit(pair, "simple_statement", 1) THEN Panic("assertion failed")
        ELSE CASE inner.rule = "singular_statement" ->
                    singular_statement_into_ast(inner)
               [] inner.rule = "simple_statement_letter" ->
                    IF inner.inner = <<>>
                    THEN Panic("called Option::unwrap() on a None value")
                    ELSE WithSubscript(
                             optional_subscript_into_ast(Tail(inner.inner)))
               [] OTHER -> Panic("should never reach here")

\* ------------------------------------------------ predicates and scope
\* What lowering a predicate with `&mut stack` comes to: the outcome, the
\* caller's stack when the method is left, and the log of the stacks the
\* methods called were given (one entry per simple, negative or binary
\* predicate lowered, written when its lowering is left).
Lowered(out, stack, log) == [out |-> out, stack |-> stack, log |-> log]

\* #[derive(PartialEq)] on Variable
VariableEq(a, b) == a.alpha = b.alpha /\ SubscriptEq(a.subscript, b.subscript)

\* stack.contains(var)
Contains(stack, var) == \E i \in 1..Len(stack) : VariableEq(stack[i], var)

\* stack.clone()
Clone(stack) == stack

\* The log entry of a simple or of a negative predicate.
Site(pair, entry, exit) ==
    [site |-> pair.rule, start |-> pair.start, entry |-> entry, exit |-> exit]

\* The log entry of a binary predicate: the stack on entry, the stack each
\* operand was lowered with (None for an operand not lowered), the stack
\* the left operand left behind, the caller's stack on return.
BinarySite(pair, entry, left, left_exit, right, exit) ==
    [site |-> pair.rule, start |-> pair.start, entry |-> entry,
     left |-> left, left_exit |-> left_exit, right |-> right, exit |-> exit]

\* simple_predicate_into_ast
simple_predicate_into_ast(pair, stack) ==
    LET WithTerms(predicate_letter, terms) ==
            IF terms.kind # "Ok" THEN terms
            ELSE IF ~DegreeEqU64(predicate_letter.value.degree,
                                 U64FromLen(Len(terms.value)))
            THEN Err(new_from_custom_error(pair, DegreeMismatch))
            ELSE IF ~\A i \in 1..Len(terms.value) :
                        terms.value[i].term = "Variable"
                            => Contains(stack, terms.value[i].of)
            THEN Err(new_from_custom_error(pair, NotInScope))
            ELSE Ok(PredicateSimple(predicate_letter.value, terms.value))
        WithLetter(predicate_letter) ==
            IF predicate_letter.kind # "Ok" THEN predicate_letter
            ELSE WithTerms(predicate_letter,
                           terms_into_ast(Tail(pair.inner),
                                          {"singular_term", "variable"}))
    IN  Lowered(IF Misfit(pair, "simple_predicate", 1)
                THEN Panic("assertion failed")
                ELSE WithLetter(predicate_letter_into_ast(pair.inner[1])),
                stack, <<Site(pair, stack, stack)>>)

RECURSIVE predicate_into_ast(_, _), compound_predicate_into_ast(_, _)
RECURSIVE binary_predicate_into_ast(_, _, _, _)
RECURSIVE binary_predicate_into_ast_moving_stack(_, _, _, _)
RECURSIVE negative_predicate_into_ast(_, _)

\* predicate_into_ast
predicate_into_ast(pair, stack) ==
    IF Misfit(pair, "predicate", 1)
    THEN Lowered(Panic("assertion failed"), stack, <<>>)
    ELSE LET inner == pair.inner[1]
         IN  CASE inner.rule = "compound_predicate" ->
                    compound_predicate_into_ast(inner, stack)
               [] inner.rule = "simple_predicate" ->
                    simple_predicate_into_ast(inner, stack)
               [] OTHER ->
                    Lowered(Panic("should never reach here"), stack, <<>>)

\* A plausible slip: the stack is moved into the left operand instead of
\* copied (std::mem::take), so nothing is left of it for the right operand
\* and for the caller.
binary_predicate_into_ast_moving_stack(pair, stack, rule, variant) ==
    LET WithRight(l, r) ==
            Lowered(IF r.out.kind # "Ok" THEN r.out
                    ELSE Ok(BinaryPredicate(variant, l.out.value, r.out.value)),
                    <<>>,
                    l.log \o r.log
                        \o <<BinarySite(pair, stack, stack, l.stack, Some(<<>>),
                                        <<>>)>>)
        WithLeft(l) ==
            IF l.out.kind # "Ok"
            THEN Lowered(l.out, <<>>,
                         l.log \o <<BinarySite(pair, stack, stack, l.stack, None,
                                               <<>>)>>)
            ELSE WithRight(l, predicate_into_ast(pair.inner[2], <<>>))
    IN  IF Misfit(pair, rule, 2)
        THEN Lowered(Panic("assertion failed"), stack, <<>>)
        ELSE WithLeft(predicate_into_ast(pair.inner[1], stack))

\* conjunctive_predicate_into_ast, disjunctive_predicate_into_ast and
\* conditional_predicate_into_ast: the same method but for the rule
\* asserted and the variant built.
binary_predicate_into_ast(pair, stack, rule, variant) ==
    LET left == Clone(stack)
        right == Clone(stack)
        WithRight(l, r) ==
            Lowered(IF r.out.kind # "Ok" THEN r.out
                    ELSE Ok(BinaryPredicate(variant, l.out.value, r.out.value)),
                    stack,
                    l.log \o r.log
                        \o <<BinarySite(pair, stack, left, l.stack, Some(right),
                                        stack)>>)
        WithLeft(l) ==
            IF l.out.kind # "Ok"
            THEN Lowered(l.out, stack,
                         l.log \o <<BinarySite(pair, stack, left, l.stack, None,
                                               stack)>>)
            ELSE WithRight(l, predicate_into_ast(pair.inner[2], right))
    IN  IF Misfit(pair, rule, 2)
        THEN Lowered(Panic("assertion failed"), stack, <<>>)
        ELSE WithLeft(predicate_into_ast(pair.inner[1], left))

\* conjunctive_predicate_into_ast
conjunctive_predicate_into_ast(pair, stack) ==
    binary_predicate_into_ast(pair, stack, "conjunctive_predicate", "Conjunctive")

\* disjunctive_predicate_into_ast
disjunctive_predicate_into_ast(pair, stack) ==
    binary_predicate_into_ast(pair, stack, "disjunctive_predicate", "Disjunctive")

\* conditional_predicate_into_ast
conditional_predicate_into_ast(pair, stack) ==
    binary_predicate_into_ast(pair, stack, "conditional_predicate", "Conditional")

\* negative_predicate_into_ast: the operand is lowered with the caller's
\* stack itself.
negative_predicate_into_ast(pair, stack) ==
    LET WithRight(r) ==
            Lowered(IF r.out.kind # "Ok" THEN r.out
                    ELSE Ok(PredicateNegative(r.out.value)),
                    r.stack,
                    Append(r.log, Site(pair, stack, r.stack)))
    IN  IF Misfit(pair, "negative_predicate", 1)
        THEN Lowered(Panic("assertion failed"), stack, <<>>)
        ELSE WithRight(predicate_into_ast(pair.inner[1], stack))

\* compound_predicate_into_ast
compound_predicate_into_ast(pair, stack) ==
    IF Misfit(pair, "compound_predicate", 1)
    THEN Lowered(Panic("assertion failed"), stack, <<>>)
    ELSE LET inner == pair.inner[1]
         IN  CASE inner.rule = "conjunctive_predicate" ->
                    conjunctive_predicate_into_ast(inner, stack)
               [] inner.rule = "negative_predicate" ->
                    negative_predicate_into_ast(inner, stack)
               [] inner.rule = "disjunctive_predicate" ->
                    disjunctive_predicate_into_ast(inner, stack)
               [] inner.rule = "conditional_predicate" ->
                    conditional_predicate_into_ast(inner, stack)
               [] OTHER ->
                    Lowered(Panic("should never reach here"), stack, <<>>)

\* ------------------------------------------------------------ statements
\* What lowering a statement comes to: the outcome and the log of the
\* predicates lowered on the way.
Stated(out, log) == [out |-> out, log |-> log]

RECURSIVE statement_into_ast(_), complex_statement_into_ast(_)
RECURSIVE binary_statement_into_ast(_, _, _), logical_negation_into_ast(_)

\* A plausible slip: stack.push(variable.clone()) is left out, so that the
\* predicate is lowered with an empty stack.
quantified_statement_into_ast_without_push(pair, rule, variant) ==
    LET WithPredicate(var, pred) ==
            Stated(IF pred.out.kind # "Ok" THEN pred.out
                   ELSE Ok(Quantified(variant, var.value, pred.out.value)),
                   pred.log)
        WithVariable(var) ==
            IF var.kind # "Ok" THEN Stated(var, <<>>)
            ELSE WithPredicate(var, predicate_into_ast(pair.inner[2], <<>>))
    IN  IF Misfit(pair, rule, 2) THEN Stated(Panic("assertion failed"), <<>>)
        ELSE WithVariable(variable_into_ast(pair.inner[1]))

\* existential_statement_into_ast and universal_statement_into_ast: the
\* same method but for the rule asserted and the variant built.
quantified_statement_into_ast(pair, rule, variant) ==
    LET WithPredicate(var, pred) ==
            Stated(IF pred.out.kind # "Ok" THEN pred.out
                   ELSE Ok(Quantified(variant, var.value, pred.out.value)),
                   pred.log)
        WithVariable(var) ==
            IF var.kind # "Ok" THEN Stated(var, <<>>)
            ELSE WithPredicate(var,
                               predicate_into_ast(pair.inner[2], <<var.value>>))
    IN  IF Misfit(pair, rule, 2) THEN Stated(Panic("assertion failed"), <<>>)
        ELSE WithVariable(variable_into_ast(pair.inner[1]))

\* existential_statement_into_ast
existential_statement_into_ast(pair) ==
    quantified_statement_into_ast(pair, "existential_statement", "Existential")

\* universal_statement_into_ast
universal_statement_into_ast(pair) ==
    quantified_statement_into_ast(pair, "universal_statement", "Universal")

\* logical_conjunction_into_ast, logical_disjunction_into_ast and
\* logical_conditional_into_ast: the same method but for the rule asserted
\* and the variant built.
binary_statement_into_ast(pair, rule, variant) ==
    LET WithRight(l, r) ==
            Stated(IF r.out.kind # "Ok" THEN r.out
                   ELSE Ok(BinaryStatement(variant, l.out.value, r.out.value)),
                   l.log \o r.log)
        WithLeft(l) ==
            IF l.out.kind # "Ok" THEN l
            ELSE WithRight(l, statement_into_ast(pair.inner[2]))
    IN  IF Misfit(pair, rule, 2) THEN Stated(Panic("assertion failed"), <<>>)
        ELSE WithLeft(statement_into_ast(pair.inner[1]))

\* logical_conjunction_into_ast
logical_conjunction_into_ast(pair) ==
    binary_statement_into_ast(pair, "logical_conjunction", "LogicalConjunction")

\* logical_disjunction_into_ast
logical_disjunction_into_ast(pair) ==
    binary_statement_into_ast(pair, "logical_disjunction", "LogicalDisjunction")

\* logical_conditional_into_ast
logical_conditional_into_ast(pair) ==
    binary_statement_into_ast(pair, "logical_conditional", "LogicalConditional")

\* logical_negation_into_ast
logical_negation_into_ast(pair) ==
    LET WithRight(r) ==
            Stated(IF r.out.kind # "Ok" THEN r.out
                   ELSE Ok(LogicalNegation(r.out.value)),
                   r.log)
    IN  IF Misfit(pair, "logical_negation", 1)
        THEN Stated(Panic("assertion failed"), <<>>)
        ELSE WithRight(statement_into_ast(pair.inner[1]))

\* complex_statement_into_ast
complex_statement_into_ast(pair) ==
    IF Misfit(pair, "complex_statement", 1)
    THEN Stated(Panic("assertion failed"), <<>>)
    ELSE LET inner == pair.inner[1]
         IN  CASE inner.rule = "logical_conjunction" ->
                    logical_conjunction_into_ast(inner)
               [] inner.rule = "logical_negation" ->
                    logical_negation_into_ast(inner)
               [] inner.rule = "logical_disjunction" ->
                    logical_disjunction_into_ast(inner)
               [] inner.rule = "logical_conditional" ->
                    logical_conditional_into_ast(inner)
               [] inner.rule = "existential_statement" ->
                    existential_statement_into_ast(inner)
               [] inner.rule = "universal_statement" ->
                    universal_statement_into_ast(inner)
               [] OTHER -> Stated(Panic("should never reach here"), <<>>)

\* statement_into_ast
statement_into_ast(pair) ==
    IF Misfit(pair, "statement", 1) THEN Stated(Panic("assertion failed"), <<>>)
    ELSE LET inner == pair.inner[1]
         IN  CASE inner.rule = "complex_statement" ->
                    complex_statement_into_ast(inner)
               [] inner.rule = "simple_statement" ->
                    Stated(simple_statement_into_ast(inner), <<>>)
               [] OTHER -> Stated(Panic("should never reach here"), <<>>)

\* for st_pair in pairs { match statement_into_ast(..) { Ok(st) =>
\* statements.push(st), Err(e) => return Err(e) } }: the statements pushed,
\* or the first error; `wrapped` tells whether each pair is a premise or a
\* conclusion holding the statement pair, or the statement pair itself.
RECURSIVE statements_into_ast(_, _, _)
statements_into_ast(pairs, statements, wrapped) ==
    LET st_pair == Head(pairs)
        WithRest(st, rest) == Stated(rest.out, st.log \o rest.log)
        WithStatement(st) ==
            IF st.out.kind # "Ok" THEN st
            ELSE WithRest(st, statements_into_ast(
                                  Tail(pairs), Append(statements, st.out.value),
                                  wrapped))
    IN  IF pairs = <<>> THEN Stated(Ok(statements), <<>>)
        ELSE IF wrapped /\ st_pair.rule \notin {"premise", "conclusion"}
        THEN Stated(Panic("should never reach here"), <<>>)
        ELSE IF wrapped /\ st_pair.inner = <<>>
        THEN Stated(Panic("called Option::unwrap() on a None value"), <<>>)
        ELSE WithStatement(statement_into_ast(
                               IF wrapped THEN st_pair.inner[1] ELSE st_pair))

\* statement_set_into_ast
statement_set_into_ast(pair) ==
    LET WithStatements(statements) ==
            Stated(IF statements.out.kind # "Ok" THEN statements.out
                   ELSE Ok(StatementSet(statements.out.value)),
                   statements.log)
    IN  IF pair.rule # "statement_set" THEN Stated(Panic("assertion failed"), <<>>)
        ELSE WithStatements(statements_into_ast(pair.inner, <<>>, FALSE))

\* A plausible slip: the conclusion is taken from the front of the vector.
argument_into_ast_conclusion_first(pair) ==
    LET WithStatements(statements) ==
            Stated(IF statements.out.kind # "Ok" THEN statements.out
                   ELSE IF statements.out.value = <<>>
                   THEN Panic("called Option::unwrap() on a None value")
                   ELSE Ok(Argument(Tail(statements.out.value),
                                    Head(statements.out.value))),
                   statements.log)
    IN  WithStatements(statements_into_ast(pair.inner, <<>>, TRUE))

\* argument_into_ast
argument_into_ast(pair) ==
    LET Concluded(pushed) ==
            IF pushed = <<>>
            THEN Panic("called Option::unwrap() on a None value")
            ELSE Ok(Argument(SubSeq(pushed, 1, Len(pushed) - 1),
                             pushed[Len(pushed)]))
        WithStatements(statements) ==
            Stated(IF statements.out.kind # "Ok" THEN statements.out
                   ELSE Concluded(statements.out.value),
                   statements.log)
    IN  IF pair.rule # "argument" THEN Stated(Panic("assertion failed"), <<>>)
        ELSE WithStatements(statements_into_ast(pair.inner, <<>>, TRUE))

\* into_ast
into_ast(pairs) ==
    IF pairs = <<>> \/ Head(pairs).inner = <<>>
    THEN Stated(Panic("called Option::unwrap() on a None value"), <<>>)
    ELSE LET inner == Head(pairs).inner[1]
         IN  CASE inner.rule = "statement_set" -> statement_set_into_ast(inner)
               [] inner.rule = "argument" -> argument_into_ast(inner)
               [] OTHER -> Stated(Panic("should never reach here"), <<>>)

\* Parser::parse
parse(text) ==
    LET WithPairs(p) ==
            IF p.kind = "Ok" THEN into_ast(p.value)
            ELSE Stated(Err(new_from_parsing_error(p.error)), <<>>)
    IN  WithPairs(rule_input(text))

\* ------------------------------------------------------ the texts parsed
\* More parser bounds: the largest number of terms written after a
\* predicate letter, and the largest number of statements of a statement
\* set or of an argument.
MaxTerms == 2
MaxStatements == 2

\* The concatenation of texts, `between` put between each two.
RECURSIVE Joined(_, _)
Joined(texts, between) ==
    IF texts = <<>> THEN <<>>
    ELSE IF Len(texts) = 1 THEN texts[1]
    ELSE texts[1] \o between \o Joined(Tail(texts), between)

\* The text of a letter with its optional subscript, and of a predicate
\* letter with its subscript and superscript followed by its terms.
LetterText(alpha, numeral) ==
    <<alpha>> \o (IF numeral = None THEN <<>>
                  ELSE Written(numeral[1], SubscriptGlyphs))
AppliedText(alpha, numeral, degree, terms) ==
    LetterText(alpha, numeral) \o Written(degree, SuperscriptGlyphs)
        \o Joined(terms, <<>>)

\* The numerals written as subscripts and superscripts: 0, 1, 2, u64::MAX
\* and its successor, behind up to MaxLeadingZeros zeros.
SourceNumerals ==
    {ZeroDigits(k) \o n :
        k \in 0..MaxLeadingZeros,
        n \in {<<0>>, <<1>>, <<2>>, U64MaxDigits, U64MaxPlusOneDigits}}

\* All the sequences of 1 to n members of a set.
SeqsUpTo(set, n) == UNION {[1..k -> set] : k \in 1..n}

\* Simple and singular statements.  After the predicate letter come
\* singular terms, or the variable x, or a term whose subscript exceeds u64.
SimpleTexts ==
    {LetterText(alpha, numeral) :
        alpha \in {"A", "B"},
        numeral \in {None, Some(<<2>>), Some(<<0, 2>>), Some(U64MaxPlusOneDigits)}}
SingularTexts ==
    {AppliedText("A", numeral, degree, terms) :
        numeral \in {None, Some(<<2>>)},
        degree \in SourceNumerals,
        terms \in SeqsUpTo({LetterText("a", None), LetterText("b", Some(<<1>>)),
                            LetterText("x", None),
                            LetterText("a", Some(U64MaxPlusOneDigits))},
                           MaxTerms)}

\* Quantified statements over a simple predicate: the variable bound is z
\* or z1, the terms are a, z, z with the subscripts 0 and 01, and y.
QuantifiedSimpleTexts ==
    {<<quantifier>> \o bound \o AppliedText("A", None, degree, terms) :
        quantifier \in DOMAIN QuantifierRule,
        bound \in {LetterText("z", None), LetterText("z", Some(<<1>>))},
        degree \in SourceNumerals,
        terms \in SeqsUpTo({LetterText("a", None), LetterText("z", None),
                            LetterText("z", Some(<<0>>)),
                            LetterText("z", Some(<<0, 1>>)),
                            LetterText("y", None)},
                           MaxTerms)}

\* Quantified statements over a compound predicate, built from a simple
\* predicate that lowers, one whose variable is not in scope, one whose
\* degree is not its number of terms, one whose degree exceeds u64.
BinaryText(l, connective, r) == <<"(">> \o l \o <<connective>> \o r \o <<")">>
CompoundTexts ==
    LET Operands ==
            {AppliedText("A", None, <<1>>, <<<<"z">>>>),
             AppliedText("B", None, <<1>>, <<<<"y">>>>),
             AppliedText("C", None, <<1>>, <<<<"z">>, <<"a">>>>),
             AppliedText("D", None, U64MaxPlusOneDigits, <<<<"z">>>>)}
    IN  {<<"~">> \o p : p \in Operands}
        \cup {<<"U+00AC", "~">> \o p : p \in Operands}
        \cup {BinaryText(p, c, q) :
                 p \in Operands, c \in {"&", "U+2228", "U+2283"}, q \in Operands}
        \cup {<<"~">> \o BinaryText(p, "&", q) : p \in Operands, q \in Operands}
        \cup {BinaryText(BinaryText(p, "&", q), "U+2228", r) :
                 p \in Operands, q \in Operands, r \in Operands}
        \cup {BinaryText(p, "U+2283", BinaryText(q, "&", <<"~">> \o r)) :
                 p \in Operands, q \in Operands, r \in Operands}
QuantifiedCompoundTexts ==
    {<<quantifier, "z">> \o p :
        quantifier \in DOMAIN QuantifierRule, p \in CompoundTexts}

\* The statements put together into longer sets, arguments and complex
\* statements: two that lower, and one for each way of not lowering (a
\* degree that is not the number of terms, a variable not in scope, a
\* numeral exceeding u64, a text the grammar refuses).
MemberTexts ==
    {LetterText("A", None),
     AppliedText("B", Some(<<2>>), <<1>>, <<<<"b">>>>),
     AppliedText("C", None, <<2>>, <<<<"a">>>>),
     <<"U+2203", "z">> \o AppliedText("D", None, <<1>>, <<<<"y">>>>),
     LetterText("E", Some(U64MaxPlusOneDigits)),
     AppliedText("F", None, <<1>>, <<<<"x">>>>)}
ComplexTexts ==
    {<<"~">> \o s : s \in MemberTexts}
    \cup {BinaryText(s, c, t) :
             s \in MemberTexts, c \in {"&", "U+2228", "U+2283"}, t \in MemberTexts}

\* What is handed to the parser: the statements written and the form they
\* are written in.  Every statement above is written alone in a statement
\* set; up to MaxStatements members are written as a statement set, as an
\* argument, and as a set left unclosed.
Sources ==
    {[form |-> "statement_set", statements |-> <<s>>] :
        s \in SimpleTexts \cup SingularTexts \cup QuantifiedSimpleTexts
                 \cup QuantifiedCompoundTexts \cup MemberTexts
                 \cup ComplexTexts}
    \cup {[form |-> form, statements |-> sts] :
             form \in {"statement_set", "argument", "unclosed_set"},
             sts \in SeqsUpTo(MemberTexts, MaxStatements)}

\* The text of a source.
SourceText(src) ==
    LET sts == src.statements
    IN  CASE src.form = "statement_set" -> <<"{">> \o Joined(sts, <<",">>) \o <<"}">>
          [] src.form = "unclosed_set" -> <<"{">> \o Joined(sts, <<",">>)
          [] src.form = "argument" ->
                Joined(SubSeq(sts, 1, Len(sts) - 1), <<",">>)
                    \o <<"U+2234">> \o sts[Len(sts)]

\* ------------------------------------------------- the parser's behaviour
\* A text is at hand; the parser has not been called.
ParseInit ==
    /\ TreeInit
    /\ numerals = <<>> /\ decoded = None
    /\ source \in Sources
    /\ parsed = None

\* parser.parse(text): what the call came to and the log of its lowering.
Parse ==
    /\ source # <<>>
    /\ parsed = None
    /\ parsed' = Some(parse(SourceText(source)))
    /\ UNCHANGED <<tree, last, appends, appendedTo, numerals, decoded, source>>

ParseSpec == ParseInit /\ [][Parse]_vars

\* ------------------------------------------- vocabulary of the claims
\* What the call of parse came to and the log of its lowering.
Outcome == parsed[1].out
ScopeLog == parsed[1].log

\* The pairs the grammar makes of the source, if it is grammatical, and
\* all the pairs within a pair.
Grammatical == rule_input(SourceText(source)).kind = "Ok"
RECURSIVE PairsWithin(_)
PairsWithin(pair) ==
    {pair} \cup UNION {PairsWithin(pair.inner[i]) : i \in DOMAIN pair.inner}
SourcePairs == PairsWithin(rule_input(SourceText(source)).value[1])

\* The decimal digits a numeral is written with, read off the glyphs.
DigitsWritten(str, glyphs) ==
    [i \in 1..Len(str) |-> (CHOOSE d \in DOMAIN glyphs : glyphs[d] = str[i]) - 1]

\* A singular_statement or simple_predicate pair whose superscript is not
\* the number of terms written after the predicate letter.
Mismatched(pair) ==
    LET letter == pair.inner[1]
        superscript == letter.inner[Len(letter.inner)]
    IN  ~SameNumber(DigitsWritten(superscript.str, SuperscriptGlyphs),
                    <<Len(pair.inner) - 1>>)
MismatchedSites ==
    {pair \in SourcePairs :
        /\ pair.rule \in {"singular_statement", "simple_predicate"}
        /\ Mismatched(pair)}

\* All the statements and all the predicates within a ParseTree.
RECURSIVE StatementsWithin(_)
StatementsWithin(st) ==
    {st} \cup
    IF "statement" \notin DOMAIN st THEN {}
    ELSE IF st.statement = "LogicalNegation" THEN StatementsWithin(st.right)
    ELSE IF "left" \in DOMAIN st
    THEN StatementsWithin(st.left) \cup StatementsWithin(st.right)
    ELSE {}
RECURSIVE PredicatesWithin(_)
PredicatesWithin(pred) ==
    {pred} \cup
    IF pred.predicate = "Simple" THEN {}
    ELSE IF pred.predicate = "Negative" THEN PredicatesWithin(pred.right)
    ELSE PredicatesWithin(pred.left) \cup PredicatesWithin(pred.right)
TopStatements(parse_tree) ==
    IF parse_tree.parse_tree = "StatementSet" THEN parse_tree.statements
    ELSE Append(parse_tree.premises, parse_tree.conclusion)
TreeStatements(parse_tree) ==
    UNION {StatementsWithin(TopStatements(parse_tree)[i]) :
              i \in DOMAIN TopStatements(parse_tree)}
IsQuantified(st) == "variable" \in DOMAIN st
IsSingular(st) == "terms" \in DOMAIN st
TreePredicates(parse_tree) ==
    UNION {PredicatesWithin(st.predicate) :
              st \in {q \in TreeStatements(parse_tree) : IsQuantified(q)}}

\* The predicate letters applied in a ParseTree, each with its terms.
Applications(parse_tree) ==
    {st \in TreeStatements(parse_tree) : IsSingular(st)}
        \cup {p \in TreePredicates(parse_tree) : p.predicate = "Simple"}

\* ----------------------------------------------------------- claim C14
\* C14: for every input, parse returns Ok(ParseTree) or Err(error); no
\* input (grammatical inputs with long subscript or superscript numerals
\* included) makes the lowering abort through an unwrap, an assert or an
\* unreachable arm.
C14_FailuresAreValues ==
    parsed # None => Outcome.kind \in {"Ok", "Err"}

\* ----------------------------------------------------------- claim C11
\* C11: in every ParseTree returned, every singular statement and every
\* simple predicate has as many terms as the degree of its letter; and
\* parse of any grammatical input with a singular statement or a simple
\* predicate whose superscript differs from its number of terms returns an
\* error instead of a tree.
C11_DegreeAgreement ==
    parsed # None =>
        /\ Outcome.kind = "Ok" =>
              \A app \in Applications(Outcome.value) :
                  SameNumber(app.letter.degree, <<Len(app.terms)>>)
        /\ (Grammatical /\ MismatchedSites # {}) => Outcome.kind = "Err"

\* ----------------------------------------------------------- claim C12
\* Two lettered pairs (variables) are the same letter with the same
\* subscript: both without one, or both with numerals of the same number.
SameLettered(a, b) ==
    /\ a.inner[1].str = b.inner[1].str
    /\ Len(a.inner) = Len(b.inner)
    /\ Len(a.inner) = 2 =>
          SameNumber(DigitsWritten(a.inner[2].str, SubscriptGlyphs),
                     DigitsWritten(b.inner[2].str, SubscriptGlyphs))

\* The variables written in the simple predicates of a quantified
\* statement that are not the variable its quantifier binds.
FreeVariables(quantified) ==
    {v \in PairsWithin(quantified.inner[2]) :
        v.rule = "variable" /\ ~SameLettered(v, quantified.inner[1])}
FreeSites ==
    {q \in SourcePairs :
        /\ q.rule \in {"existential_statement", "universal_statement"}
        /\ FreeVariables(q) # {}}

\* C12: in every ParseTree returned, every Term::Variable inside the
\* predicate of an Existential or Universal statement is (same letter,
\* same subscript) the variable bound by the enclosing quantifier; and
\* parse of any input in which a simple predicate mentions a variable that
\* no enclosing quantifier binds returns an error.
C12_VariablesInScope ==
    parsed # None =>
        /\ Outcome.kind = "Ok" =>
              \A q \in {st \in TreeStatements(Outcome.value) : IsQuantified(st)} :
                  \A p \in PredicatesWithin(q.predicate) :
                      p.predicate = "Simple" =>
                          \A i \in DOMAIN p.terms :
                              p.terms[i].term = "Variable" =>
                                  /\ p.terms[i].of.alpha = q.variable.alpha
                                  /\ p.terms[i].of.subscript
                                         = q.variable.subscript
        /\ (Grammatical /\ FreeSites # {}) => Outcome.kind = "Err"

\* ----------------------------------------------------------- claim C13
\* The statement a text lowers to when it is parsed alone in a set.
LoweredAlone(text) ==
    parse(SourceText([form |-> "statement_set", statements |-> <<text>>]))
        .out.value.statements[1]

AppliedToVariable(text) ==
    /\ \A i \in DOMAIN text : text[i] \notin DOMAIN QuantifierRule
    /\ \E p \in DOMAIN text :
          LET sub == RunEnd(text, p + 1, SubscriptDigits)
              sup == RunEnd(text, sub, SuperscriptDigits)
              singular == RunEnd(text, sup, LOWER_TERM \cup SubscriptDigits)
          IN  /\ text[p] \in UPPER
              /\ sup > sub
              /\ At(text, singular) \in LOWER_VAR

\* C15: no Statement::Singular of a ParseTree returned holds a variable;
\* a predicate letter applied, outside any quantifier, to a letter of the
\* variable alphabet makes parse return an error.
C15_SingularHasNoVariable ==
    parsed # None =>
        /\ Outcome.kind = "Ok" =>
              \A st \in {s \in TreeStatements(Outcome.value) : IsSingular(s)} :
                  \A i \in DOMAIN st.terms :
                      /\ "term" \notin DOMAIN st.terms[i]
                      /\ st.terms[i].alpha \in LOWER_TERM
        /\ (\E i \in DOMAIN source.statements :
                AppliedToVariable(source.statements[i]))
              => Outcome.kind = "Err"

\* C15 witness: parse has returned an error for the set of the one
\* statement A, subscript 2, superscript 1, applied to x.
C15_Witness ==
    /\ parsed # None
    /\ SourceText(source) = <<"{", "A", "U+2082", "U+00B9", "x", "}">>
    /\ Outcome.kind = "Err"

\* ----------------------------------------------------------- claim C17
\* The predicate letters of the source whose superscript is only zeros.
ZeroDegreeLetters ==
    {letter \in SourcePairs :
        /\ letter.rule = "predicate_letter"
        /\ LET superscript == letter.inner[Len(letter.inner)].str
           IN  \A i \in DOMAIN superscript : superscript[i] = "U+2070"}

\* C17: every PredicateLetter of a ParseTree returned has a degree of at
\* least 1; an input with a predicate letter whose superscript is 0, or
\* only zeros, is never accepted.
C17_DegreeAtLeastOne ==
    parsed # None =>
        /\ Outcome.kind = "Ok" =>
              \A app \in Applications(Outcome.value) :
                  /\ app.letter.degree # <<0>>
                  /\ ~SameNumber(app.letter.degree, <<0>>)
        /\ (Grammatical /\ ZeroDegreeLetters # {}) => Outcome.kind # "Ok"

\* C17 witness: parse of the set of the one statement A, superscript 0,
\* applied to a (a grammatical input) has returned the degree error.
C17_Witness ==
    /\ parsed # None
    /\ SourceText(source) = <<"{", "A", "U+2070", "a", "}">>
    /\ Grammatical
    /\ Outcome.kind = "Err"
    /\ Outcome.error.message = DegreeMismatch

\* ----------------------------------------------------------- claim C19
\* The log entries of the binary predicates lowered.
BinarySites ==
    {i \in DOMAIN ScopeLog :
        ScopeLog[i].site \in {"conjunctive_predicate", "disjunctive_predicate",
                              "conditional_predicate"}}

\* C19: when a conjunctive, disjunctive or conditional predicate is
\* lowered, each operand is lowered with a copy of the current scope stack:
\* the right operand sees the stack as it was on entry whatever the
\* lowering of the left operand did, and the caller's stack is unchanged
\* when the lowering returns.
C19_OperandsGetCopies ==
    parsed # None =>
        \A i \in BinarySites :
            LET call == ScopeLog[i]
            IN  /\ call.left = call.entry
                /\ call.right # None => call.right[1] = call.entry
                /\ call.exit = call.entry

\* C19 witness: a binary predicate whose left operand is itself a binary
\* predicate has been lowered, both operands included, under a quantifier.
C19_Witness ==
    /\ parsed # None
    /\ Outcome.kind = "Ok"
    /\ \E i, j \in BinarySites :
          /\ ScopeLog[j].start = ScopeLog[i].start + 1
          /\ ScopeLog[i].right # None
          /\ ScopeLog[j].right # None
          /\ ScopeLog[i].entry # <<>>

\* ----------------------------------------------------------- claim C20
\* The simple predicates of the source that have both defects: a number of
\* terms that is not the degree, and a variable that the quantifier of the
\* statement does not bind.
TwiceDefective ==
    {site \in SourcePairs :
        /\ site.rule = "simple_predicate"
        /\ Mismatched(site)
        /\ \E q \in FreeSites :
              \E v \in FreeVariables(q) : v \in PairsWithin(site)}

\* The sites of the source at which a check is made.
CheckedSites ==
    {site \in SourcePairs :
        site.rule \in {"singular_statement", "simple_predicate"}}

\* C20: at a simple predicate the degree check runs before the scope
\* check: for a predicate with both defects the error returned is the
\* degree error, never the scope error.  (The sources looked at have that
\* predicate as their only site, so that no other error comes first.)
C20_DegreeCheckedFirst ==
    (parsed # None /\ Grammatical /\ TwiceDefective # {}) =>
        /\ \A site \in TwiceDefective :
              Outcome # Err(new_from_custom_error(site, NotInScope))
        /\ CheckedSites = TwiceDefective =>
              \E site \in TwiceDefective :
                  Outcome = Err(new_from_custom_error(site, DegreeMismatch))

\* ----------------------------------------------------------- claim C21
\* The simple predicates of the source that mention a variable which the
\* quantifier of their statement does not bind.
UnboundSites ==
    {site \in SourcePairs :
        /\ site.rule = "simple_predicate"
        /\ \E q \in FreeSites :
              \E v \in FreeVariables(q) : v \in PairsWithin(site)}

\* The sites of the source that violate degree agreement or scope, the
\* leftmost of them, and the error a site is refused with (the degree
\* error if its degree is not its number of terms, the scope error
\* otherwise).
ViolatingSites == MismatchedSites \cup UnboundSites
LeftmostViolation ==
    CHOOSE site \in ViolatingSites :
        \A other \in ViolatingSites : site.start <= other.start
ErrorOf(site) ==
    Err(new_from_custom_error(
            site, IF Mismatched(site) THEN DegreeMismatch ELSE NotInScope))

\* C21: lowering stops at the first semantic error in source order and
\* yields no partial result: for a grammatical input with one or several
\* sites that violate degree agreement or scope, parse returns the error
\* of the leftmost violating site and no ParseTree, and nothing to the
\* right of that site is lowered.
C21_FirstErrorOnly ==
    (parsed # None /\ Grammatical /\ ViolatingSites # {}) =>
        /\ Outcome = ErrorOf(LeftmostViolation)
        /\ \A i \in DOMAIN ScopeLog :
              ScopeLog[i].start <= LeftmostViolation.start

\* ----------------------------------------------------------- claim C22
\* The branches above x, nearest first, read off the log of calls: the
\* parent given when x was appended, then the parent given for that one,
\* and so on up to the root.
RECURSIVE AncestorsGiven(_)
AncestorsGiven(x) ==
    IF ParentGiven(x) = None THEN <<>>
    ELSE <<ParentGiven(x)[1]>> \o AncestorsGiven(ParentGiven(x)[1])

\* Some branch above x is closed.
BelowClosed(x) ==
    \E a \in Range(AncestorsGiven(x)) : BranchIsClosed(branch_from_id(tree, a))

\* C22: append_branch_at looks at the closed flag of the parent given and
\* at nothing else: a call under an unclosed branch returns the id of a
\* new unclosed leaf, and leaves the tree open, whether or not a branch
\* above the parent is closed.
C22_OnlyParentChecked ==
    [][\A p \in BranchIds :
          (/\ last'.op = "append_branch_at"
           /\ last'.id = p
           /\ Unclosed(p))
          => /\ ~last'.panic
             /\ last'.ret # None
             /\ ~BranchIsClosed(branch_from_id(tree', last'.ret[1]))
             /\ branch_is_last_child(tree', last'.ret[1])
             /\ is_open(tree')]_vars

\* C22 witness: a branch has just been appended under an unclosed branch
\* that lies below a closed one; the tree is open, its new unclosed leaf
\* lying below a closed interior branch.
C22_Witness ==
    /\ last.op = "append_branch_at"
    /\ ~last.panic
    /\ last.id \in BranchIds
    /\ Unclosed(last.id)
    /\ BelowClosed(last.id)
    /\ Unclosed(last.ret[1])
    /\ AppendedUnder(last.ret[1]) = <<>>
    /\ BelowClosed(last.ret[1])
    /\ is_open(tree)

\* ----------------------------------------------------------- claim C23
\* The quantified statement of the source that a pair lies in, and the
\* simple predicate of the source that a log entry is about.
QuantifierOf(pair) ==
    CHOOSE q \in SourcePairs :
        /\ q.rule \in {"existential_statement", "universal_statement"}
        /\ pair \in PairsWithin(q)
SiteOf(entry) ==
    CHOOSE site \in SourcePairs :
        site.rule = entry.site /\ site.start = entry.start

\* The stack holds one variable and no more, the one the quantifier q
\* binds: its letter, and its subscript read as a number (or none).
HoldsOnly(stack, q) ==
    LET bound == q.inner[1]
    IN  /\ Len(stack) = 1
        /\ stack[1].alpha = bound.inner[1].str[1]
        /\ (stack[1].subscript = None) <=> (Len(bound.inner) = 1)
        /\ Len(bound.inner) = 2 =>
              SameNumber(stack[1].subscript[1],
                         DigitsWritten(bound.inner[2].str, SubscriptGlyphs))

\* The stacks a log entry holds: on entry and on exit, and for a binary
\* predicate those of its operands as well.
StacksOf(entry) ==
    {entry.entry, entry.exit}
        \cup IF "left" \in DOMAIN entry
             THEN {entry.left, entry.left_exit}
                      \cup (IF entry.right = None THEN {} ELSE {entry.right[1]})
             ELSE {}

\* A numeral of the site is more than u64::MAX (its digits after the zeros
\* in front are), and the sites at which the scope check runs: those
\* lowered whose numerals are within u64 and whose degree is their number
\* of terms.
Overlong(site) ==
    \E n \in PairsWithin(site) :
        /\ n.rule \in {"subscript_number", "superscript_number"}
        /\ LET digits == DigitsWritten(n.str, IF n.rule = "subscript_number"
                                              THEN SubscriptGlyphs
                                              ELSE SuperscriptGlyphs)
               zeros == CHOOSE k \in 0..Len(digits) :
                            /\ \A i \in 1..k : digits[i] = 0
                            /\ k = Len(digits) \/ digits[k + 1] # 0
           IN  ExceedsU64(SubSeq(digits, zeros + 1, Len(digits)))
ScopeChecked ==
    {site \in {SiteOf(ScopeLog[i]) :
                  i \in {j \in DOMAIN ScopeLog :
                            ScopeLog[j].site = "simple_predicate"}} :
        ~Overlong(site) /\ ~Mismatched(site)}

\* C23: whenever a predicate is lowered, and so whenever the scope check
\* of a simple predicate runs, the stack holds exactly one variable, that
\* of the one quantifier around it, on entry and on exit alike; and the
\* check refuses the predicate, with the scope error, if and only if one
\* of its variable terms is not that variable (same letter, same
\* subscript).
C23_OneVariableInScope ==
    (parsed # None /\ Grammatical) =>
        /\ \A i \in DOMAIN ScopeLog :
              \A stack \in StacksOf(ScopeLog[i]) :
                  HoldsOnly(stack, QuantifierOf(SiteOf(ScopeLog[i])))
        /\ \A site \in ScopeChecked :
              (Outcome = Err(new_from_custom_error(site, NotInScope)))
                  <=> site \in UnboundSites

\* C23 witness: under a quantifier binding z with the subscript 1 a simple
\* predicate whose term is z with the subscript 01 has passed the scope
\* check, and parse has returned the tree.
C23_Witness ==
    /\ parsed # None
    /\ Grammatical
    /\ Outcome.kind = "Ok"
    /\ \E site \in ScopeChecked :
          /\ QuantifierOf(site).inner[1].str = <<"z", "U+2081">>
          /\ \E v \in PairsWithin(site) :
                v.rule = "variable" /\ v.str = <<"z", "U+2080", "U+2081">>

====
